---- MODULE Spec2Model ----
(***************************************************************************)
(* A model of the Devito Loop Engine (DLE): the pass pipeline driver       *)
(* (dle_pass, State, the Rewriter profiles) and the loop-blocking pass of  *)
(* devito/dle/rewriters.py, together with the run-time behaviour of the    *)
(* calls that loop blocking emits.                                         *)
(*                                                                         *)
(* An iteration/expression tree (IET) is a sequence of loop nests.  Each   *)
(* nest is a chain of Iterations (outermost first) around a body that is   *)
(* either a block of Expressions or a sequence of Calls.  The trees of     *)
(* this model hold no HaloSpot and no two adjacent nests with the same     *)
(* iteration space, so fold_blockable_tree / unfold_blocked_tree find      *)
(* nothing to fold.                                                        *)
(***************************************************************************)
EXTENDS Integers, Sequences, FiniteSets, Bags, TLC

VARIABLES
    mode,        \* the Rewriter class selected: "basic", "advanced", ...
    params,      \* self.params: [openmp, blockinner, blockalways]
    passes,      \* CustomRewriter.passes (<<>> for the other rewriters)
    pc,          \* position in _pipeline: index of the next pass to run
    nodes,       \* State.nodes
    efuncs,      \* State.efuncs
    dimensions,  \* State.dimensions
    input,       \* State.input
    includes,    \* State.includes
    timings,     \* self.timings: the keys of the OrderedDict, in order
    padding,     \* trailing-axis padding added to each Array (Array.update)
    warnings,    \* the perf_adv messages emitted (one Dimension each)
    env,         \* run time: the bounds and tile size of every Dimension
    ip,          \* run time: index of the next Call of the blocked nest
    passed,      \* run time: the argument values of the Calls run so far
    executed,    \* run time: bag of the index tuples executed so far
    source,      \* AbstractRewriter.nodes: the tree the rewriter was given
    error,       \* the exception raised by the rewriter ("" while there is none)
    elemental,   \* an ElementalFunction: its parameters and its slot map
    calls,       \* the ElementalCalls built from it so far, oldest first
    lib,         \* Operator._lib of each Operator (None until loaded)
    cfunction,   \* Operator._cfunction of each Operator (None until taken)
    invoked      \* the calls made to jit_compile and load, oldest first

vars == <<mode, params, passes, pc, source, nodes, efuncs, dimensions, input, includes,
          timings, padding, warnings, env, ip, passed, executed, error,
          elemental, calls, lib, cfunction, invoked>>

stateVars == <<nodes, efuncs, dimensions, input, includes, timings, padding, warnings>>
confVars == <<mode, params, passes, source>>
runVars == <<ip, passed, executed>>
callVars == <<elemental, calls>>
opVars == <<lib, cfunction, invoked>>

(***************************************************************************)
(* Bounds of the model.                                                    *)
(***************************************************************************)
MaxNests == 2      \* nests in the input tree
MaxSize == 5       \* largest extent max - min + 1 of the outermost blocked range
MaxInner == 3      \* largest extent of the inner run-time loop ranges
MaxStep == 3       \* largest run-time tile size
MaxMin == 1        \* the lower bound, other than 0, of a run-time loop range
MaxNodes == 3      \* nodes in the body of the time loop given to halo optimization
MaxArrays == 2     \* writing Expressions in the nest given to remainder elimination

(***************************************************************************)
(* Generic helpers.                                                        *)
(***************************************************************************)
Range(s) == {s[i] : i \in DOMAIN s}

RECURSIVE SetToSortedSeq(_)
SetToSortedSeq(S) ==
    IF S = {} THEN <<>>
    ELSE LET m == CHOOSE x \in S : \A y \in S : x <= y
         IN <<m>> \o SetToSortedSeq(S \ {m})

RECURSIVE flatten(_)
flatten(ss) == IF ss = <<>> THEN <<>> ELSE Head(ss) \o flatten(Tail(ss))

RECURSIVE Sum(_)
Sum(s) == IF s = <<>> THEN 0 ELSE Head(s) + Sum(Tail(s))

RECURSIVE Pow2(_)
Pow2(n) == IF n = 0 THEN 1 ELSE 2 * Pow2(n - 1)

IsPrefix(s, t) == Len(s) <= Len(t) /\ SubSeq(t, 1, Len(s)) = s

SeqToBag(s) == [t \in Range(s) |-> Cardinality({i \in DOMAIN s : s[i] = t})]

(***************************************************************************)
(* Dimensions.  A Dimension is the tuple of its name; the BlockDimension   *)
(* named "%s%d_block" % (parent name, n) is the parent's tuple extended    *)
(* by n.                                                                   *)
(***************************************************************************)
BlockDimension(parent, n) == Append(parent, n)

is_Block(d) == Len(d) > 1

(***************************************************************************)
(* Iterations.  lo/hi/st name the limits: ("min", "max", "1") is the full  *)
(* range of the Dimension, ("min", "max", "step") the loop over the blocks *)
(* of a BlockDimension, ("blk", "blk+step-1", "1") the loop within the     *)
(* block bd; hi = "padded" is the guarded constant that                    *)
(* _minimize_remainders introduces.  extra says that the body holds other  *)
(* nodes beside the next Iteration of the chain; tag says that the         *)
(* Iteration carries a tag.                                                *)
(***************************************************************************)
Iteration(dim, props, extra, tag) ==
    [dim |-> dim, lo |-> "min", hi |-> "max", st |-> "1", bd |-> <<>>,
     props |-> props, offs |-> <<0, 0>>, pragmas |-> <<>>,
     extra |-> extra, tag |-> tag]

is_Parallel(i) == "parallel" \in i.props
is_Sequential(i) == "sequential" \in i.props
is_Vectorizable(i) == "vector" \in i.props
is_Wrappable(i) == "wrappable" \in i.props
is_Elementizable(i) == "elemental" \in i.props
is_ParallelRelaxed(i) == i.props \cap {"parallel", "parallel_if_atomic"} # {}

(***************************************************************************)
(* A nest: the chain of Iterations, the Calls of its body (none when the   *)
(* body is a block of Expressions), the declarations put in front of it,   *)
(* the tensors its Expressions access and the Arrays they write (one entry *)
(* for each writing Expression).                                           *)
(***************************************************************************)
Nest(loops, tensors, writes) ==
    [loops |-> loops, calls |-> <<>>, header |-> <<>>,
     tensors |-> tensors, writes |-> writes]

(* A tree: State.nodes (name <<>>) or a Callable.  denorm counts the        *)
(* Denormals() nodes wrapped around it, dynamic lists the dynamic           *)
(* parameters of an ElementalFunction, hist the passes that visited it.     *)
Tree(name, items, dynamic) ==
    [name |-> name, denorm |-> 0, items |-> items, dynamic |-> dynamic,
     hist |-> <<>>]

(* The tree as the emitted code sees it: without the visit history.         *)
Code(t) == [name |-> t.name, denorm |-> t.denorm, items |-> t.items,
            dynamic |-> t.dynamic]

(***************************************************************************)
(* The trailing-axis extent of the tensors (shape[-1]) and the number of   *)
(* items of a vector register, get_simd_items(dtype).                      *)
(***************************************************************************)
SimdItems == 8

Shape == [u |-> 50, v |-> 48, a |-> 50, b |-> 50, c |-> 48, d |-> 55, w |-> 48]

Tensors == DOMAIN Shape

(* The tensors of a dtype that get_simd_items has no entry for (it raises  *)
(* KeyError), and the items _minimize_remainders falls back to for them:   *)
(* simdinfo['avx512f'] / itemsize, 64 / 4.                                 *)
NoSimdItems == {"w"}

FallbackItems == 16

(***************************************************************************)
(* The result of a pass: the rewritten tree and the auxiliary results      *)
(* (`extra`), plus its side effects: the Arrays whose padding it updates   *)
(* and the performance warnings it logs.                                   *)
(***************************************************************************)
Result(iet, ef, dims, incl, pads, warns) ==
    [iet |-> iet, efuncs |-> ef, dimensions |-> dims, input |-> <<>>,
     includes |-> incl, pads |-> pads, warns |-> warns]

(* BasicRewriter._avoid_denormals *)
avoid_denormals(iet, p) ==
    Result([iet EXCEPT !.denorm = @ + 1], <<>>, <<>>,
           <<"xmmintrin.h", "pmmintrin.h">>, <<>>, <<>>)

(* AdvancedRewriter._loop_wrapping: a warning for each WRAPPABLE Iteration *)
loop_wrapping(iet, p) ==
    Result(iet, <<>>, <<>>, <<>>, <<>>,
           flatten([n \in DOMAIN iet.items |->
               LET ls == iet.items[n].loops
                   w == SetToSortedSeq({i \in DOMAIN ls : is_Wrappable(ls[i])})
               IN [j \in DOMAIN w |-> ls[w[j]].dim]]))

(***************************************************************************)
(* AdvancedRewriter._optimize_halospots                                    *)
(*                                                                         *)
(* A tree with HaloSpots holds, beside nests, Iterations whose body is a   *)
(* sequence of sibling nodes: HaloSpots, nests and Expressions.  A         *)
(* HaloSpot has its halo_scheme (the set of Functions it exchanges), the   *)
(* Functions that are hoistable, the USELESS flag and its body, a          *)
(* sequence of nests.  An Expression or a nest is known by the Function it *)
(* writes.                                                                 *)
(***************************************************************************)
HaloSpot(halo_scheme, hoistable, useless, body) ==
    [halo_scheme |-> halo_scheme, hoistable |-> hoistable,
     is_Useless |-> useless, body |-> body]

Expression(f) == [expr |-> f]

IterationOver(dim, props, ns) == [dim |-> dim, props |-> props, nodes |-> ns]

is_HaloSpot(n) == "halo_scheme" \in DOMAIN n
is_Nest(n) == "loops" \in DOMAIN n
is_IterationOver(n) == "nodes" \in DOMAIN n
is_Affine(i) == "affine" \in i.props
is_empty(hs) == hs.halo_scheme = {}

(* HaloScheme.project, HaloScheme.drop and HaloScheme.union *)
project(halo_scheme, functions) == halo_scheme \cap functions
drop(halo_scheme, functions) == halo_scheme \ functions
union(halo_scheme, halo_schemes) == halo_scheme \cup UNION halo_schemes

(* Transformer(mapper, nested=True) with mapper = {hs: hs.body} for the     *)
(* USELESS HaloSpots among the siblings ns.                                 *)
drop_useless(ns) ==
    flatten([i \in DOMAIN ns |->
        IF is_HaloSpot(ns[i]) /\ ns[i].is_Useless THEN ns[i].body ELSE <<ns[i]>>])

(* The hoisting with every HaloSpot keeping what it has. *)
hoist_to_root_only(ns) ==
    LET halo_spots == {i \in DOMAIN ns : is_HaloSpot(ns[i])}
    IN [i \in DOMAIN ns |->
           IF i \in halo_spots /\ \A j \in halo_spots : i <= j
           THEN [ns[i] EXCEPT !.halo_scheme =
                    union(@, {project(ns[j].halo_scheme, ns[j].hoistable) :
                                 j \in halo_spots \ {i}})]
           ELSE ns[i]]

(* The HaloSpots of one Iteration (one value of MapNodes(Iteration,         *)
(* HaloSpot)): the first is the root, which gets the hoistable part of the  *)
(* others; each other one drops its hoistable part.                         *)
hoist(ns) ==
    LET halo_spots == {i \in DOMAIN ns : is_HaloSpot(ns[i])}
    IN [i \in DOMAIN ns |->
           IF i \notin halo_spots THEN ns[i]
           ELSE IF \A j \in halo_spots : i <= j
           THEN [ns[i] EXCEPT !.halo_scheme =
                    union(@, {project(ns[j].halo_scheme, ns[j].hoistable) :
                                 j \in halo_spots \ {i}})]
           ELSE [ns[i] EXCEPT !.halo_scheme = drop(@, ns[i].hoistable)]]

(* The third step leaving every HaloSpot in place. *)
keep_empty(ns) == ns

(* Transformer(mapper, nested=True) with mapper = {i: i.body} for the empty *)
(* HaloSpots.                                                               *)
drop_empty(ns) ==
    flatten([i \in DOMAIN ns |->
        IF is_HaloSpot(ns[i]) /\ is_empty(ns[i]) THEN ns[i].body ELSE <<ns[i]>>])

(* all(j.is_Affine for j in FindNodes(Iteration).visit(i)), disregarded *)
all_affine_or_not(n) == TRUE

(* all(j.is_Affine for j in FindNodes(Iteration).visit(i)) *)
all_affine(n) == \A k \in DOMAIN n.loops : is_Affine(n.loops[k])

(* The mapper of the last step: the rebuilt HaloSpots and the nodes mapped  *)
(* to None, by their position among the siblings.                           *)
no_mapper == [rebuilt |-> <<>>, none |-> {}]

(* mapper[root] = rebuilt._rebuild(body=List(body=as_tuple(root.body) +     *)
(* (i,))); mapper[i] = None.  The body is made from root.body, the body     *)
(* the HaloSpot has in the tree that is being visited.                      *)
sink_into(ns, i, root, mapper) ==
    [rebuilt |-> (root :> [(IF root \in DOMAIN mapper.rebuilt
                            THEN mapper.rebuilt[root] ELSE ns[root])
                           EXCEPT !.body = ns[root].body \o <<ns[i]>>])
                 @@ mapper.rebuilt,
     none |-> mapper.none \cup {i}]

(* The loop over the siblings with a root that outlives a nest that is not  *)
(* affine.                                                                  *)
RECURSIVE sink_scan_keeping_root(_, _, _, _)
sink_scan_keeping_root(ns, i, root, mapper) ==
    IF i > Len(ns) THEN mapper
    ELSE IF is_HaloSpot(ns[i]) THEN sink_scan_keeping_root(ns, i + 1, i, mapper)
    ELSE IF is_Nest(ns[i]) /\ root # 0 /\ all_affine(ns[i])
    THEN sink_scan_keeping_root(ns, i + 1, root, sink_into(ns, i, root, mapper))
    ELSE sink_scan_keeping_root(ns, i + 1, IF is_Nest(ns[i]) THEN root ELSE 0, mapper)

(* The loop over the siblings unmapping every affine nest, root or not. *)
RECURSIVE sink_scan_unrooted(_, _, _, _)
sink_scan_unrooted(ns, i, root, mapper) ==
    IF i > Len(ns) THEN mapper
    ELSE IF is_HaloSpot(ns[i]) THEN sink_scan_unrooted(ns, i + 1, i, mapper)
    ELSE IF is_Nest(ns[i]) /\ root # 0 /\ all_affine(ns[i])
    THEN sink_scan_unrooted(ns, i + 1, root, sink_into(ns, i, root, mapper))
    ELSE IF is_Nest(ns[i]) /\ all_affine(ns[i])
    THEN sink_scan_unrooted(ns, i + 1, 0, [mapper EXCEPT !.none = @ \cup {i}])
    ELSE sink_scan_unrooted(ns, i + 1, 0, mapper)

(* The loops over FindAdjacent((HaloSpot, Iteration)): the siblings from    *)
(* the i-th on, with root the position of the HaloSpot that nests are sunk  *)
(* into (0 for None).  A sibling that is neither a HaloSpot nor an          *)
(* Iteration ends the group, and the next group starts with root = None.    *)
RECURSIVE sink_scan(_, _, _, _)
sink_scan(ns, i, root, mapper) ==
    IF i > Len(ns) THEN mapper
    ELSE IF is_HaloSpot(ns[i]) THEN sink_scan(ns, i + 1, i, mapper)
    ELSE IF is_Nest(ns[i]) /\ root # 0 /\ all_affine(ns[i])
    THEN sink_scan(ns, i + 1, root, sink_into(ns, i, root, mapper))
    ELSE sink_scan(ns, i + 1, 0, mapper)

(* Transformer(mapper).visit of the siblings *)
transform(ns, mapper) ==
    flatten([i \in DOMAIN ns |->
        IF i \in mapper.none THEN <<>>
        ELSE IF i \in DOMAIN mapper.rebuilt THEN <<mapper.rebuilt[i]>>
        ELSE <<ns[i]>>])

sink(ns) == transform(ns, sink_scan(ns, 1, 0, no_mapper))

(* The four steps on the body of one Iteration *)
optimize_nodes(ns) == sink(drop_empty(hoist(drop_useless(ns))))

optimize_halospots(iet, p) ==
    Result([iet EXCEPT !.items =
                [n \in DOMAIN @ |->
                    IF is_IterationOver(@[n])
                    THEN [@[n] EXCEPT !.nodes = optimize_nodes(@)]
                    ELSE @[n]]],
           <<>>, <<>>, <<>>, <<>>, <<>>)

(***************************************************************************)
(* AdvancedRewriter._loop_blocking                                         *)
(***************************************************************************)
(* The Iterations of a tree that blocking considers, as indices into it.   *)
iterations(loops, exclude_innermost) ==
    SetToSortedSeq({i \in DOMAIN loops :
        /\ is_Parallel(loops[i])
        /\ (exclude_innermost => ~is_Vectorizable(loops[i]))})

(* IsPerfectIteration().visit(root): no Iteration from root down holds      *)
(* anything beside the next Iteration.                                      *)
IsPerfectIteration(loops, root) ==
    \A i \in root..(Len(loops) - 1) : ~loops[i].extra

(* Blocking without the heuristic that wants a sequential outer loop. *)
blockable_without_heuristic(item, p) ==
    LET its == iterations(item.loops, ~p.blockinner)
    IN /\ ~(Len(its) <= 1)
       /\ IsPerfectIteration(item.loops, its[1])

(* "Is the Iteration tree blockable ?" *)
blockable(item, p) ==
    LET its == iterations(item.loops, ~p.blockinner)
    IN /\ ~(Len(its) <= 1)
       /\ IsPerfectIteration(item.loops, its[1])
       /\ ~(~is_Sequential(item.loops[1]) /\ ~p.blockalways)

(* A blocked Iteration that is called on its interior range only. *)
ranges_interior_only(i, bi) ==
    <<[dim |-> bi.dim, axis |-> i.dim, sel |-> 1]>>

(* The two iteration ranges of a blocked Iteration i as the symbolic        *)
(* triples the Calls receive: sel 1 is (i.symbolic_min, maxb, step), sel 2  *)
(* is (maxb + 1, i.symbolic_max, i.symbolic_max - maxb).                    *)
ranges(i, bi) ==
    <<[dim |-> bi.dim, axis |-> i.dim, sel |-> 1],
      [dim |-> bi.dim, axis |-> i.dim, sel |-> 2]>>

(* The interior range measured from 0 instead of from min. *)
range_values_from_zero(min, max, step) ==
    LET maxb == max - ((max + 1) % step)
    IN <<<<min, maxb, step>>, <<maxb + 1, max, max - maxb>>>>

(* The values of the two triples for Iteration bounds [min, max] and tile   *)
(* size step; symbolic_size is max - min + 1.                               *)
range_values(min, max, step) ==
    LET size == max - min + 1
        maxb == max - (size % step)
    IN <<<<min, maxb, step>>, <<maxb + 1, max, max - maxb>>>>

(* A product whose leftmost sequence advances fastest. *)
RECURSIVE product_leftmost_fastest(_)
product_leftmost_fastest(rs) ==
    IF rs = <<>> THEN << <<>> >>
    ELSE LET rest == product_leftmost_fastest(Tail(rs))
         IN flatten([b \in DOMAIN rest |->
                [a \in DOMAIN Head(rs) |-> <<Head(rs)[a]>> \o rest[b]]])

(* itertools.product: the rightmost sequence advances fastest. *)
RECURSIVE product(_)
product(rs) ==
    IF rs = <<>> THEN << <<>> >>
    ELSE LET rest == product(Tail(rs))
         IN flatten([a \in DOMAIN Head(rs) |->
                [b \in DOMAIN rest |-> <<Head(rs)[a]>> \o rest[b]]])

(* "Apply loop blocking to `tree`", for the blockable Iterations its of the *)
(* nest; n is len(mapper).  The BlockDimensions: *)
block_dims(ls, its, n) ==
    [j \in DOMAIN its |-> BlockDimension(ls[its[j]].dim, n)]

(* "Build Iteration over blocks" *)
inter_blocks(ls, its, d) ==
    [j \in DOMAIN its |->
        [Iteration(d[j], {"parallel"}, FALSE, FALSE)
            EXCEPT !.st = "step", !.offs = ls[its[j]].offs]]

(* Iterations within a block that start from the lower bound of the range. *)
intra_blocks_from_min(ls, its, d) ==
    [j \in DOMAIN its |->
        [ls[its[j]] EXCEPT !.lo = "min", !.hi = "blk+step-1", !.st = "1",
                           !.bd = d[j], !.offs = <<0, 0>>, !.extra = FALSE]]

(* "Build Iteration within a block" *)
intra_blocks(ls, its, d) ==
    [j \in DOMAIN its |->
        [ls[its[j]] EXCEPT !.lo = "blk", !.hi = "blk+step-1", !.st = "1",
                           !.bd = d[j], !.offs = <<0, 0>>, !.extra = FALSE]]

(* "Construct the blocked tree": compose_nodes(interb + intrab +            *)
(* [iterations[-1].nodes]).                                                 *)
blocked_tree(item, its, interb, intrab) ==
    [item EXCEPT
        !.loops = interb \o intrab
                  \o SubSeq(item.loops, its[Len(its)] + 1, Len(item.loops)),
        !.header = <<>>]

(* "Build Calls to the `efunc`": one for each element of the product.  *)
efunc_calls(name, ps) ==
    [q \in DOMAIN ps |-> [callee |-> name, args |-> ps[q], steps |-> <<>>]]

(* The two Callables and the Call that replaces the root of the nest. *)
promote(item, n, its, d, interb) ==
    [item |-> [loops |-> SubSeq(item.loops, 1, its[1] - 1),
               calls |-> <<[callee |-> <<"f", n>>, args |-> <<>>, steps |-> d]>>,
               header |-> item.header,
               tensors |-> item.tensors, writes |-> <<>>],
     efuncs |->
        <<Tree(<<"bf", n>>,
               <<blocked_tree(item, its, interb, intra_blocks(item.loops, its, d))>>,
               d),
          Tree(<<"f", n>>,
               <<[loops |-> <<>>,
                  calls |-> efunc_calls(<<"bf", n>>,
                        product([j \in DOMAIN its |->
                                    ranges(item.loops[its[j]], interb[j])])),
                  header |-> <<>>,
                  tensors |-> item.tensors, writes |-> <<>>]>>,
               [j \in DOMAIN its |-> item.loops[its[j]].dim] \o d)>>,
     dims |-> d]

block_with(item, n, its, d) ==
    promote(item, n, its, d, inter_blocks(item.loops, its, d))

block_iterations(item, n, its) ==
    block_with(item, n, its, block_dims(item.loops, its, n))

block_nest(item, p, n) ==
    block_iterations(item, n, iterations(item.loops, ~p.blockinner))

(* The loop over retrieve_iteration_tree(iet). *)
merge(b, r) ==
    [items |-> <<b.item>> \o r.items,
     efuncs |-> b.efuncs \o r.efuncs,
     dims |-> b.dims \o r.dims]

keep(item, r) == [r EXCEPT !.items = <<item>> \o @]

RECURSIVE block_items(_, _, _)
block_items(items, p, n) ==
    IF items = <<>> THEN [items |-> <<>>, efuncs |-> <<>>, dims |-> <<>>]
    ELSE IF blockable(Head(items), p)
    THEN merge(block_nest(Head(items), p, n), block_items(Tail(items), p, n + 1))
    ELSE keep(Head(items), block_items(Tail(items), p, n))

blocking_result(iet, r) ==
    Result([iet EXCEPT !.items = r.items], r.efuncs, r.dims, <<>>, <<>>, <<>>)

loop_blocking(iet, p) == blocking_result(iet, block_items(iet.items, p, 0))

(***************************************************************************)
(* AdvancedRewriter._simdize                                               *)
(***************************************************************************)
(* as_tuple(self._compiler_decoration('ignore-deps')) *)
ignore_deps == << <<"ignore-deps">> >>

(* The aligned pragma only when every tensor is aligned, naming them all. *)
simd_pragma_if_all(item) ==
    IF /\ Range(item.tensors) \cap NoSimdItems = {}
       /\ \A j \in Range(item.tensors) : Shape[j] % SimdItems = 0
    THEN << <<"simd-for-aligned">> \o item.tensors >>
    ELSE << <<"simd-for">> >>

(* aligned: the tensors whose shape[-1] is a multiple of the SIMD items,   *)
(* or none when get_simd_items raises KeyError for one of them.            *)
simd_pragma(item) ==
    LET al == IF Range(item.tensors) \cap NoSimdItems # {} THEN <<>>
              ELSE SelectSeq(item.tensors, LAMBDA j : Shape[j] % SimdItems = 0)
    IN IF al # <<>> THEN << <<"simd-for-aligned">> \o al >>
       ELSE << <<"simd-for">> >>

(* The pass annotating every PARALLEL loop. *)
simdize_parallel(iet, p) ==
    Result([iet EXCEPT !.items = [n \in DOMAIN @ |->
                [@[n] EXCEPT !.loops = [i \in DOMAIN @ |->
                    IF is_Parallel(@[i])
                    THEN [@[i] EXCEPT
                            !.pragmas = @ \o ignore_deps \o simd_pragma(iet.items[n])]
                    ELSE @[i]]]]],
           <<>>, <<>>, <<>>, <<>>, <<>>)

simdize(iet, p) ==
    Result([iet EXCEPT !.items = [n \in DOMAIN @ |->
                [@[n] EXCEPT !.loops = [i \in DOMAIN @ |->
                    IF is_Vectorizable(@[i])
                    THEN [@[i] EXCEPT
                            !.pragmas = @ \o ignore_deps \o simd_pragma(iet.items[n])]
                    ELSE @[i]]]]],
           <<>>, <<>>, <<>>, <<>>, <<>>)

(***************************************************************************)
(* AdvancedRewriter._parallelize: the eligibility predicate, and the       *)
(* parallelizer, which annotates the outermost eligible Iteration of each  *)
(* nest.                                                                   *)
(***************************************************************************)
(* The key without the exclusions. *)
key_relaxed_only(i) == is_ParallelRelaxed(i)

key(i) == is_ParallelRelaxed(i) /\ ~(is_Elementizable(i) \/ is_Vectorizable(i))

make_parallel(iet) ==
    [iet EXCEPT !.items = [n \in DOMAIN @ |->
        LET ls == iet.items[n].loops
            cand == {i \in DOMAIN ls : key(ls[i])}
        IN IF cand = {} THEN @[n]
           ELSE LET o == CHOOSE i \in cand : \A j \in cand : i <= j
                IN [@[n] EXCEPT !.loops[o].pragmas = @ \o << <<"omp-parallel-for">> >>]]]

parallelize(iet, p) ==
    Result(make_parallel(iet), <<>>, <<>>, <<>>, <<>>, <<>>)

(***************************************************************************)
(* AdvancedRewriter._minimize_remainders                                   *)
(***************************************************************************)
(* simd_items: get_simd_items(i.dtype), or the fallback on KeyError *)
simd_items(i) == IF i \in NoSimdItems THEN FallbackItems ELSE SimdItems

(* The least padding that makes the extent a multiple of the SIMD items. *)
least_padding(i) == (simd_items(i) - (Shape[i] % simd_items(i))) % simd_items(i)

(* simd_items - i.shape[-1] % simd_items *)
needed_padding(i) == simd_items(i) - (Shape[i] % simd_items(i))

(* Padding applied whatever the Arrays need. *)
uniform_or_not(pad) == pad # <<>>

(* len(set(padding)) == 1 *)
uniform(pad) == Cardinality(Range(pad)) = 1

(* What the pass does to one nest: the rewritten nest and the padding       *)
(* updates, each <<Array, amount>>.                                         *)
minimize_nest(item) ==
    LET ls == item.loops
        vector_iterations == SetToSortedSeq({i \in DOMAIN ls : is_Vectorizable(ls[i])})
        root == vector_iterations[1]
        pad == [w \in DOMAIN item.writes |-> needed_padding(item.writes[w])]
        skip == [item |-> item, pads |-> <<>>]
    IN IF Len(vector_iterations) # 1 THEN skip
       ELSE IF ~ls[root].tag THEN skip
       ELSE IF ~uniform(pad) THEN skip
       ELSE LET pads == [w \in DOMAIN item.writes |-> <<item.writes[w], pad[1]>>]
            IN IF ls[root].hi = "blk+step-1" THEN [item |-> item, pads |-> pads]
               ELSE [item |-> [item EXCEPT !.loops[root].hi = "padded",
                                           !.header = <<"init">> \o @],
                     pads |-> pads]

remainders_result(iet, r) ==
    Result([iet EXCEPT !.items = [n \in DOMAIN @ |-> r[n].item]],
           <<>>, <<>>, <<>>, flatten([n \in DOMAIN r |-> r[n].pads]), <<>>)

minimize_remainders(iet, p) ==
    remainders_result(iet, [n \in DOMAIN iet.items |-> minimize_nest(iet.items[n])])

(***************************************************************************)
(* dle_pass and State                                                      *)
(***************************************************************************)
(* func(self, nodes, state) has returned r for the pass named f; the visit  *)
(* is recorded in the visited tree.                                         *)
record_visit(f, r) == [r EXCEPT !.iet.hist = Append(@, f)]

(* An update that overwrites the dimensions instead of extending them. *)
update_overwriting(state, processed, extra) ==
    [nodes |-> processed,
     efuncs |-> state.efuncs \o extra.efuncs,
     dimensions |-> extra.dimensions,
     input |-> state.input \o extra.input,
     includes |-> state.includes \o extra.includes]

(* State.update *)
update(state, processed, extra) ==
    [nodes |-> processed,
     efuncs |-> state.efuncs \o extra.efuncs,
     dimensions |-> state.dimensions \o extra.dimensions,
     input |-> state.input \o extra.input,
     includes |-> state.includes \o extra.includes]

(* A wrapper that leaves the Callables of State.efuncs as they were. *)
processing_main_only(state, r, e) ==
    [state |-> update(state, r.iet, r),
     pads |-> r.pads,
     warns |-> r.warns]

(* The body of the wrapper once the pass has run on state.nodes (r) and on   *)
(* each of state.efuncs (e): the Callables are replaced in place, then the   *)
(* State is updated.                                                         *)
processing(state, r, e) ==
    [state |-> update([state EXCEPT !.efuncs = [i \in DOMAIN e |-> e[i].iet]],
                      r.iet, r),
     pads |-> r.pads \o flatten([i \in DOMAIN e |-> e[i].pads]),
     warns |-> r.warns \o flatten([i \in DOMAIN e |-> e[i].warns])]

(* The wrapper of dle_pass for the pass named f, as a function of State: r  *)
(* is what func returns on state.nodes, e what it returns on each Callable  *)
(* of list(state.efuncs).                                                   *)
wrapper(f, state, r, e) ==
    processing(state, record_visit(f, r), [i \in DOMAIN e |-> record_visit(f, e[i])])

RECURSIVE pad_arrays(_, _)
pad_arrays(pd, pads) ==
    IF pads = <<>> THEN pd
    ELSE pad_arrays([pd EXCEPT ![Head(pads)[1]] = @ + Head(pads)[2]], Tail(pads))

(***************************************************************************)
(* The pipelines of the Rewriter classes.                                  *)
(***************************************************************************)
BasicRewriter_pipeline == <<"_avoid_denormals">>

(* The advanced pipeline with vectorization ahead of blocking. *)
AdvancedRewriter_pipeline_simd_first(p) ==
    <<"_avoid_denormals", "_optimize_halospots", "_simdize", "_loop_blocking">>
    \o (IF p.openmp THEN <<"_parallelize">> ELSE <<>>)
    \o <<"_minimize_remainders">>

AdvancedRewriter_pipeline(p) ==
    <<"_avoid_denormals", "_optimize_halospots", "_loop_blocking", "_simdize">>
    \o (IF p.openmp THEN <<"_parallelize">> ELSE <<>>)
    \o <<"_minimize_remainders">>

AdvancedRewriterSafeMath_pipeline(p) ==
    <<"_optimize_halospots", "_loop_blocking", "_simdize">>
    \o (IF p.openmp THEN <<"_parallelize">> ELSE <<>>)
    \o <<"_minimize_remainders">>

(* The speculative pipeline without the diagnostic pass. *)
SpeculativeRewriter_pipeline_no_wrapping(p) ==
    <<"_avoid_denormals", "_optimize_halospots", "_loop_blocking", "_simdize">>
    \o (IF p.openmp THEN <<"_parallelize">> ELSE <<>>)
    \o <<"_minimize_remainders">>

SpeculativeRewriter_pipeline(p) ==
    <<"_avoid_denormals", "_optimize_halospots", "_loop_wrapping",
      "_loop_blocking", "_simdize">>
    \o (IF p.openmp THEN <<"_parallelize">> ELSE <<>>)
    \o <<"_minimize_remainders">>

passes_mapper ==
    [denormals |-> "_avoid_denormals", optcomms |-> "_optimize_halospots",
     wrapping |-> "_loop_wrapping", blocking |-> "_loop_blocking",
     openmp |-> "_parallelize", simd |-> "_simdize"]

(* CustomRewriter._pipeline looks every name up in passes_mapper when its   *)
(* turn comes: a name that is not a key raises KeyError there.             *)
CustomRewriter_pipeline(ps) ==
    [i \in DOMAIN ps |->
        IF ps[i] \in DOMAIN passes_mapper THEN passes_mapper[ps[i]] ELSE "KeyError"]

(* CustomRewriter.__init__: a comma-separated string (given here already    *)
(* split) gets 'openmp' appended when it is enabled and absent; a tuple is  *)
(* taken as it is.                                                          *)
CustomRewriter_init(fmt, ps, p) ==
    IF fmt = "str" /\ "openmp" \notin Range(ps) /\ p.openmp
    THEN Append(ps, "openmp") ELSE ps

(* The exception CustomRewriter.__init__ raises: the names are looked up   *)
(* in passes_mapper in the except branch only, that is for a tuple.        *)
CustomRewriter_raises(fmt, ps) ==
    IF fmt = "tuple" /\ ~(\A i \in DOMAIN ps : ps[i] \in DOMAIN passes_mapper)
    THEN "DLEException" ELSE ""

pipeline ==
    CASE mode = "basic" -> BasicRewriter_pipeline
      [] mode = "advanced" -> AdvancedRewriter_pipeline(params)
      [] mode = "advanced-safe-math" -> AdvancedRewriterSafeMath_pipeline(params)
      [] mode = "speculative" -> SpeculativeRewriter_pipeline(params)
      [] mode = "custom" -> CustomRewriter_pipeline(passes)

(* AbstractRewriter.run has returned. *)
done == pc > Len(pipeline)

(* _pipeline is about to call the pass named f. *)
at(f) == ~done /\ error = "" /\ pipeline[pc] = f

(***************************************************************************)
(* The actions: one for each pass, run through dle_pass when _pipeline     *)
(* reaches it.                                                             *)
(***************************************************************************)
State == [nodes |-> nodes, efuncs |-> efuncs, dimensions |-> dimensions,
          input |-> input, includes |-> includes]

dle_pass(f, r, e) ==
    /\ \E w \in {wrapper(f, State, r, e)} :
          /\ nodes' = w.state.nodes
          /\ efuncs' = w.state.efuncs
          /\ dimensions' = w.state.dimensions
          /\ input' = w.state.input
          /\ includes' = w.state.includes
          /\ padding' = pad_arrays(padding, w.pads)
          /\ warnings' = warnings \o w.warns
    /\ timings' = IF f \in Range(timings) THEN timings ELSE Append(timings, f)
    /\ pc' = pc + 1
    /\ UNCHANGED <<confVars, env, runVars, error, callVars, opVars>>

AvoidDenormals ==
    /\ at("_avoid_denormals")
    /\ dle_pass("_avoid_denormals", avoid_denormals(nodes, params),
                [i \in DOMAIN efuncs |-> avoid_denormals(efuncs[i], params)])

OptimizeHalospots ==
    /\ at("_optimize_halospots")
    /\ dle_pass("_optimize_halospots", optimize_halospots(nodes, params),
                [i \in DOMAIN efuncs |-> optimize_halospots(efuncs[i], params)])

LoopWrapping ==
    /\ at("_loop_wrapping")
    /\ dle_pass("_loop_wrapping", loop_wrapping(nodes, params),
                [i \in DOMAIN efuncs |-> loop_wrapping(efuncs[i], params)])

LoopBlocking ==
    /\ at("_loop_blocking")
    /\ dle_pass("_loop_blocking", loop_blocking(nodes, params),
                [i \in DOMAIN efuncs |-> loop_blocking(efuncs[i], params)])

Simdize ==
    /\ at("_simdize")
    /\ dle_pass("_simdize", simdize(nodes, params),
                [i \in DOMAIN efuncs |-> simdize(efuncs[i], params)])

Parallelize ==
    /\ at("_parallelize")
    /\ dle_pass("_parallelize", parallelize(nodes, params),
                [i \in DOMAIN efuncs |-> parallelize(efuncs[i], params)])

MinimizeRemainders ==
    /\ at("_minimize_remainders")
    /\ dle_pass("_minimize_remainders", minimize_remainders(nodes, params),
                [i \in DOMAIN efuncs |-> minimize_remainders(efuncs[i], params)])

(* CustomRewriter._pipeline reaches a name that is not in passes_mapper:   *)
(* the lookup raises KeyError and run() is left with the passes before it  *)
(* applied.                                                                *)
PipelineKeyError ==
    /\ at("KeyError")
    /\ error' = "KeyError"
    /\ UNCHANGED <<confVars, pc, stateVars, env, runVars, callVars, opVars>>

(***************************************************************************)
(* Run time: the Calls that blocking put into the Callable f0 are run one  *)
(* by one; each runs the tiled Callable bf0 on the argument values that    *)
(* the Call's symbolic triples have for the bounds and tile sizes in env.  *)
(***************************************************************************)
efunc(name) == CHOOSE e \in Range(efuncs) : e.name = name

(* The values a Call passes: for each blocked axis the triple (m, M, b). *)
call_values(c) ==
    [j \in DOMAIN c.args |->
        LET a == env[c.args[j].axis[1]]
        IN range_values(a.min, a.max, a.step)[c.args[j].sel]]

(* The bounds and the step of a Dimension inside the callee: those of a     *)
(* BlockDimension are the dynamic arguments, the others come from env.      *)
dim_values(d, c, vals) ==
    IF \E j \in DOMAIN c.args : c.args[j].dim = d
    THEN LET j == CHOOSE j \in DOMAIN c.args : c.args[j].dim = d
         IN [min |-> vals[j][1], max |-> vals[j][2], step |-> vals[j][3]]
    ELSE env[d[1]]

(* The first value, the last value and the increment of an Iteration, given *)
(* the current values cur of the enclosing loop variables.                  *)
loop_bounds(l, c, vals, cur) ==
    LET dv == dim_values(l.dim, c, vals)
    IN [start |-> (IF l.lo = "blk" THEN cur[l.bd] ELSE dv.min) + l.offs[1],
        end |-> (IF l.hi = "blk+step-1"
                 THEN cur[l.bd] + dim_values(l.bd, c, vals).step - 1
                 ELSE dv.max) + l.offs[2],
        incr |-> IF l.st = "step" THEN dv.step ELSE 1]

(* The index tuples (the values of the Dimensions that are no              *)
(* BlockDimension, outermost first) that a chain of Iterations executes,    *)
(* in execution order.  A loop that never advances over a non-empty range   *)
(* is reported as the empty tuple.                                          *)
RECURSIVE run_loops(_, _, _, _, _)
RECURSIVE run_from(_, _, _, _, _, _)
run_loops(loops, c, vals, cur, idx) ==
    IF loops = <<>> THEN <<idx>>
    ELSE run_from(loops, c, vals, cur, idx,
                  loop_bounds(Head(loops), c, vals, cur).start)

run_from(loops, c, vals, cur, idx, v) ==
    LET l == Head(loops)
        b == loop_bounds(l, c, vals, cur)
    IN IF v > b.end THEN <<>>
       ELSE IF b.incr <= 0 THEN << <<>> >>
       ELSE run_loops(Tail(loops), c, vals, (l.dim :> v) @@ cur,
                      IF is_Block(l.dim) THEN idx ELSE Append(idx, v))
            \o run_from(loops, c, vals, cur, idx, v + b.incr)

run_call(c) ==
    run_loops(efunc(c.callee).items[1].loops, c, call_values(c), <<>>, <<>>)

(* The Calls of the blocked nest: the body of the second Callable. *)
emitted == IF Len(efuncs) >= 2 THEN efuncs[2].items[1].calls ELSE <<>>

RunCall ==
    /\ done
    /\ ip <= Len(emitted)
    /\ passed' = Append(passed, call_values(emitted[ip]))
    /\ executed' = executed (+) SeqToBag(run_call(emitted[ip]))
    /\ ip' = ip + 1
    /\ UNCHANGED <<confVars, pc, stateVars, env, error, callVars, opVars>>

(***************************************************************************)
(* ElementalFunction and ElementalCall (ir/iet/efunc.py).  A parameter is  *)
(* a name; an argument is an expression: a sum of parameters (a bag of     *)
(* names) plus a number.  A dict is the sequence of its items in           *)
(* insertion order.                                                        *)
(***************************************************************************)
MaxCalls == 2      \* the Calls built from one ElementalFunction

symbol(p) == [syms |-> SetToBag({p}), off |-> 0]
number(n) == [syms |-> EmptyBag, off |-> n]

(* arguments[i] + j *)
plus(a, b) == [syms |-> a.syms (+) b.syms, off |-> a.off + b.off]

Dimensions == {"x"}
is_Dimension(i) == i \in Dimensions
symbolic_min(d) == [x |-> "x_m"][d]
symbolic_max(d) == [x |-> "x_M"][d]

(* parameters.index(v) *)
index(parameters, v) ==
    CHOOSE i \in DOMAIN parameters :
        parameters[i] = v /\ \A j \in 1..(i - 1) : parameters[j] # v

(* k in mapper, mapper[k] *)
has_key(mapper, k) == \E q \in DOMAIN mapper : mapper[q][1] = k
get(mapper, k) == mapper[CHOOSE q \in DOMAIN mapper : mapper[q][1] = k][2]

(* ElementalFunction.__init__: a Dimension occupies the slots of its       *)
(* symbolic_min and symbolic_max, any other dynamic parameter its own.     *)
slots_of(parameters, i) ==
    IF is_Dimension(i)
    THEN <<index(parameters, symbolic_min(i)), index(parameters, symbolic_max(i))>>
    ELSE <<index(parameters, i)>>

ElementalFunction(name, parameters, dynamic_parameters) ==
    [name |-> name,
     parameters |-> [i \in DOMAIN parameters |-> symbol(parameters[i])],
     mapper |-> [q \in DOMAIN dynamic_parameters |->
                    <<dynamic_parameters[q],
                      slots_of(parameters, dynamic_parameters[q])>>]]

(* No ElementalFunction: the rewriter has built none yet. *)
no_efunc == ElementalFunction(<<>>, <<>>, <<>>)

(* The "Sanity check" of ElementalCall.__init__ on the items of            *)
(* dynamic_args_mapper, in order: the exception of the first item that     *)
(* fails, "" if none does.  The message of the first raise is built with   *)
(* "`k` is not a dynamic parameter" % k, a format without a conversion, so *)
(* that the % itself fails with a TypeError before the ValueError exists.  *)
RECURSIVE sanity_check(_, _)
sanity_check(mapper, items) ==
    IF items = <<>> THEN ""
    ELSE IF ~has_key(mapper, Head(items)[1]) THEN "TypeError"
    ELSE IF Len(get(mapper, Head(items)[1])) # Len(Head(items)[2]) THEN "ValueError"
    ELSE sanity_check(mapper, Tail(items))

(* arguments[i] = j if incr is False else (arguments[i] + j) *)
adding_always(a, j, incr) == plus(a, j)

slot_value(a, j, incr) == IF incr = FALSE THEN j ELSE plus(a, j)

(* "Create the argument list": for i, j in zip(self._mapper[k], v). *)
RECURSIVE create_arguments(_, _, _, _)
create_arguments(arguments, mapper, items, incr) ==
    IF items = <<>> THEN arguments
    ELSE LET k == Head(items)[1]
             v == Head(items)[2]
             s == get(mapper, k)
         IN create_arguments(
                [i \in DOMAIN arguments |->
                    IF \E q \in DOMAIN s : s[q] = i
                    THEN slot_value(arguments[i],
                                    v[CHOOSE q \in DOMAIN s : s[q] = i], incr)
                    ELSE arguments[i]],
                mapper, Tail(items), incr)

(* ElementalCall.__init__ when the sanity check passes; built holds the    *)
(* constructor's own arguments, which Node keeps for _rebuild.             *)
ElementalCall(name, arguments, mapper, dynamic_args_mapper, incr) ==
    [name |-> name,
     arguments |-> create_arguments(arguments, mapper, dynamic_args_mapper, incr),
     mapper |-> mapper,
     built |-> [arguments |-> arguments,
                dynamic_args_mapper |-> dynamic_args_mapper, incr |-> incr]]

(* ElementalFunction.make_call *)
make_call(f, dynamic_args_mapper, incr) ==
    ElementalCall(f.name, f.parameters, f.mapper, dynamic_args_mapper, incr)

(* ElementalCall.dynamic_defaults *)
dynamic_defaults(c) ==
    [q \in DOMAIN c.mapper |->
        <<c.mapper[q][1],
          [i \in DOMAIN c.mapper[q][2] |-> c.arguments[c.mapper[q][2][i]]]>>]

(* Node._rebuild replays the constructor on the arguments it kept. *)
rebuild_replaying(ec, arguments) ==
    ElementalCall(ec.name, arguments, ec.mapper,
                  ec.built.dynamic_args_mapper, ec.built.incr)

(* ElementalCall._rebuild(arguments=...): dynamic_args_mapper=None and     *)
(* incr=False replace the ones the constructor was given.                  *)
rebuild(ec, arguments) ==
    ElementalCall(ec.name, arguments, ec.mapper, <<>>, FALSE)

(* The overlays a caller may pass: up to one item per key, in any order.   *)
Keys == {"x", "x_size", "u"}
Tuples == {<<>>, <<number(1)>>, <<number(1), number(2)>>}
Overlays ==
    {o \in UNION {[1..n -> Keys \X Tuples] : n \in 0..Cardinality(Keys)} :
        \A p, q \in DOMAIN o : p # q => o[p][1] # o[q][1]}

(* efunc.make_call(dynamic_args_mapper, incr): the Call is built, or the   *)
(* constructor raises and nothing is built.                                *)
MakeCall ==
    /\ error = ""
    /\ \E o \in Overlays, incr \in BOOLEAN :
          \E raised \in {sanity_check(elemental.mapper, o)} :
              IF raised = ""
              THEN /\ Len(calls) < MaxCalls
                   /\ calls' = Append(calls, make_call(elemental, o, incr))
                   /\ error' = error
              ELSE /\ calls' = calls
                   /\ error' = raised
    /\ UNCHANGED <<confVars, pc, stateVars, env, runVars, elemental, opVars>>

(* efunc.make_call(c.dynamic_defaults) for a Call c built before. *)
Remake(k) ==
    /\ error = ""
    /\ k \in DOMAIN calls
    /\ Len(calls) < MaxCalls
    /\ calls' = Append(calls, make_call(elemental, dynamic_defaults(calls[k]), FALSE))
    /\ UNCHANGED <<confVars, pc, stateVars, env, runVars, elemental, error, opVars>>

(* ec._rebuild(arguments=ec.arguments) for a Call ec built before. *)
Rebuild(k) ==
    /\ error = ""
    /\ k \in DOMAIN calls
    /\ Len(calls) < MaxCalls
    /\ calls' = Append(calls, rebuild(calls[k], calls[k].arguments))
    /\ UNCHANGED <<confVars, pc, stateVars, env, runVars, elemental, error, opVars>>

(***************************************************************************)
(* Operator.compile and Operator.cfunction (operator.py): the shared       *)
(* library and the function pointer each Operator keeps, and the calls     *)
(* made to the compiler module, oldest first.                              *)
(***************************************************************************)
MaxInvoked == 6    \* the calls made to jit_compile and load

None == <<>>

Operators == {"Kernel", "Forward"}

(* jit_compile(self.ccode, compiler): the file name of the compiled code. *)
jit_compile(o) == <<"so", o>>

(* load(basename, compiler), with the name the Operator sets on it. *)
load(basename) == <<"lib", basename>>

(* getattr(self._lib, self.name) *)
getattr(l, o) == <<"fptr", l, o>>

(* Operator.compile: jit_compile while no library is loaded, else the name *)
(* of the library.                                                         *)
Compile(o) ==
    /\ IF lib[o] = None
       THEN /\ Len(invoked) < MaxInvoked
            /\ invoked' = Append(invoked, <<"jit_compile", o>>)
       ELSE invoked' = invoked
    /\ UNCHANGED <<lib, cfunction>>
    /\ UNCHANGED <<confVars, pc, stateVars, env, runVars, error, callVars>>

(* Operator.cfunction: self.compile and load if there is no library yet,   *)
(* then the function pointer if there is none yet.                         *)
Cfunction(o) ==
    /\ IF lib[o] = None
       THEN /\ Len(invoked) + 1 < MaxInvoked
            /\ invoked' = invoked \o << <<"jit_compile", o>>, <<"load", o>> >>
            /\ lib' = [lib EXCEPT ![o] = load(jit_compile(o))]
       ELSE UNCHANGED <<invoked, lib>>
    /\ cfunction' = [cfunction EXCEPT
                        ![o] = IF @ = None THEN getattr(lib'[o], o) ELSE @]
    /\ UNCHANGED <<confVars, pc, stateVars, env, runVars, error, callVars>>

(***************************************************************************)
(* The input trees.                                                        *)
(***************************************************************************)
t_loop == Iteration(<<"t">>, {"sequential", "wrappable"}, FALSE, FALSE)
x_loop == Iteration(<<"x">>, {"parallel"}, FALSE, FALSE)
y_loop == Iteration(<<"y">>, {"parallel"}, FALSE, FALSE)
z_loop == Iteration(<<"z">>, {"parallel", "vector"}, FALSE, TRUE)

NestShapes ==
    { \* a time loop around a perfect parallel nest with a vector loop
      Nest(<<t_loop, x_loop, y_loop, z_loop>>, <<"u", "a">>, <<"a">>),
      \* the same nest outside any sequential loop
      Nest(<<x_loop, y_loop, z_loop>>, <<"v">>, <<>>),
      \* only one parallel loop above the vector loop
      Nest(<<t_loop, x_loop, z_loop>>, <<"u", "a", "c">>, <<"a", "c">>),
      \* statements between the headers of x and y
      Nest(<<t_loop, [x_loop EXCEPT !.extra = TRUE], y_loop, z_loop>>,
           <<"u", "b">>, <<"b", "b">>),
      \* a single, untagged parallel vector loop
      Nest(<<t_loop, [x_loop EXCEPT !.props = {"sequential"}],
             [z_loop EXCEPT !.tag = FALSE]>>, <<"u">>, <<>>) }

SeqsUpTo(S, n) == UNION {[1..m -> S] : m \in 1..n}

InputTrees == {Tree(<<>>, items, <<>>) : items \in SeqsUpTo(NestShapes, MaxNests)}

Modes == {"basic", "advanced", "advanced-safe-math", "speculative", "custom"}

Params == [openmp : BOOLEAN, blockinner : BOOLEAN, blockalways : BOOLEAN]

CustomLists ==
    { <<"blocking", "blocking">>,
      <<"blocking", "simd">>,
      <<"denormals", "blocking", "denormals">>,
      <<"wrapping", "optcomms", "blocking", "openmp">>,
      <<"simd", "blocking", "wrapping">> }

DefaultEnv == [d \in {"x", "y", "z"} |-> [min |-> 0, max |-> 99, step |-> 16]]

InitState ==
    /\ pc = 1
    /\ nodes = source
    /\ efuncs = <<>>
    /\ dimensions = <<>>
    /\ input = <<>>
    /\ includes = <<>>
    /\ timings = <<>>
    /\ padding = [a \in Tensors |-> 0]
    /\ warnings = <<>>
    /\ ip = 1
    /\ passed = <<>>
    /\ executed = EmptyBag
    /\ calls = <<>>
    /\ lib = [o \in Operators |-> None]
    /\ cfunction = [o \in Operators |-> None]
    /\ invoked = <<>>

(* Any rewriter on any input tree. *)
Init ==
    /\ elemental = no_efunc
    /\ mode \in Modes
    /\ params \in Params
    /\ passes \in IF mode = "custom"
                  THEN {CustomRewriter_init(fmt, ps, params) :
                            fmt \in {"str", "tuple"}, ps \in CustomLists}
                  ELSE {<<>>}
    /\ source \in InputTrees
    /\ env = DefaultEnv
    /\ error = ""
    /\ InitState

Next ==
    \/ AvoidDenormals
    \/ OptimizeHalospots
    \/ LoopWrapping
    \/ LoopBlocking
    \/ Simdize
    \/ Parallelize
    \/ MinimizeRemainders

Spec == Init /\ [][Next]_vars

(***************************************************************************)
(* Blocking one nest and running the Calls it emits, for every run-time    *)
(* range and tile size within the bounds.                                  *)
(***************************************************************************)
Min(a, b) == IF a <= b THEN a ELSE b

(* The ranges and tile sizes of one axis; one tile size larger than the     *)
(* extent stands for all of them.                                           *)
AxisEnvs(maxmin, maxsize) ==
    {e \in [min : {0, maxmin}, max : 0..(maxmin + maxsize - 1), step : 1..MaxStep] :
        /\ e.min <= e.max
        /\ e.max - e.min + 1 <= maxsize
        /\ e.step <= e.max - e.min + 2}

NoKnobs == [openmp |-> FALSE, blockinner |-> FALSE, blockalways |-> FALSE]

(* The nests blocked and the knobs they are blocked under: two blocked     *)
(* axes, two blocked axes around a vector loop, three blocked axes (the    *)
(* vector loop included), two blocked axes outside any sequential loop.    *)
BlockCases ==
    { [tree |-> Tree(<<>>, <<Nest(<<t_loop, x_loop, y_loop>>, <<"u">>, <<>>)>>, <<>>),
       params |-> NoKnobs],
      [tree |-> Tree(<<>>, <<Nest(<<t_loop, x_loop, y_loop, z_loop>>,
                                  <<"u", "a">>, <<"a">>)>>, <<>>),
       params |-> NoKnobs],
      [tree |-> Tree(<<>>, <<Nest(<<t_loop, x_loop, y_loop, z_loop>>,
                                  <<"u", "a">>, <<"a">>)>>, <<>>),
       params |-> [NoKnobs EXCEPT !.blockinner = TRUE]],
      [tree |-> Tree(<<>>, <<Nest(<<x_loop, y_loop>>, <<"u">>, <<>>)>>, <<>>),
       params |-> [NoKnobs EXCEPT !.blockalways = TRUE]] }

(* The Dimensions of the nest that blocking tiles. *)
blocked_axes(tree, p) ==
    {tree.items[1].loops[i].dim[1] :
        i \in Range(iterations(tree.items[1].loops, ~p.blockinner))}

nest_axes(tree) ==
    {tree.items[1].loops[i].dim[1] : i \in DOMAIN tree.items[1].loops}

ExampleEnv ==
    [d \in {"x", "y", "z"} |->
        IF d = "x" THEN [min |-> 0, max |-> 99, step |-> 16]
        ELSE [min |-> 0, max |-> 1, step |-> 2]]

(* Every range and tile size within the bounds: the longer ranges and a     *)
(* lower bound other than 0 on the outermost axis only, one tile size for   *)
(* an axis that is not blocked and one range for an axis that is not in     *)
(* the nest.                                                                *)
InitBlock ==
    /\ elemental = no_efunc
    /\ mode = "custom"
    /\ passes = <<"blocking">>
    /\ \E c \in BlockCases : source = c.tree /\ params = c.params
    /\ \/ /\ env \in [x : AxisEnvs(MaxMin, MaxSize), y : AxisEnvs(0, MaxInner),
                     z : AxisEnvs(0, MaxInner)]
          /\ "z" \in blocked_axes(source, params) \/ env["z"].step = 1
          /\ "z" \in nest_axes(source) \/ env["z"].max = 0
       \/ env = ExampleEnv
    /\ error = ""
    /\ InitState

NextBlock == LoopBlocking \/ RunCall

SpecBlock == InitBlock /\ [][NextBlock]_vars

(***************************************************************************)
(* Blocking of a nest t > x > y whose blocked loops carry boundary         *)
(* offsets, and the run of the Calls it emits.                             *)
(***************************************************************************)
MaxOffset == 1     \* the boundary offsets are within -MaxOffset..MaxOffset

Offsets == (-MaxOffset..MaxOffset) \X (-MaxOffset..MaxOffset)

OffsetNest(ox, oy) ==
    Nest(<<t_loop, [x_loop EXCEPT !.offs = ox], [y_loop EXCEPT !.offs = oy]>>,
         <<"u">>, <<>>)

InitOffsets ==
    /\ elemental = no_efunc
    /\ mode = "custom"
    /\ passes = <<"blocking">>
    /\ params = NoKnobs
    /\ \E ox \in Offsets : \E oy \in {<<0, 0>>, ox} :
          source = Tree(<<>>, <<OffsetNest(ox, oy)>>, <<>>)
    /\ env \in [x : AxisEnvs(MaxMin, MaxSize), y : AxisEnvs(0, MaxInner),
                z : {[min |-> 0, max |-> 0, step |-> 1]}]
    /\ error = ""
    /\ InitState

SpecOffsets == InitOffsets /\ [][NextBlock]_vars


(***************************************************************************)
(* A CustomRewriter made from a string or from a tuple of names, some of   *)
(* which may not be in passes_mapper.                                      *)
(***************************************************************************)
UnknownLists ==
    { <<"bogus">>,
      <<"denormals", "bogus", "simd">>,
      <<"simd", "blocking", "bogus">> }

InitCustom ==
    /\ elemental = no_efunc
    /\ mode = "custom"
    /\ params \in Params
    /\ \E fmt \in {"str", "tuple"}, ps \in CustomLists \cup UnknownLists :
          /\ passes = CustomRewriter_init(fmt, ps, params)
          /\ error = CustomRewriter_raises(fmt, ps)
    /\ source \in InputTrees
    /\ env = DefaultEnv
    /\ InitState

NextCustom ==
    \/ AvoidDenormals
    \/ OptimizeHalospots
    \/ LoopWrapping
    \/ LoopBlocking
    \/ Simdize
    \/ Parallelize
    \/ PipelineKeyError

SpecCustom == InitCustom /\ [][NextCustom]_vars

(***************************************************************************)
(* Vectorization and remainder elimination of one nest with a vector loop, *)
(* for every choice of up to MaxArrays written Arrays.                     *)
(***************************************************************************)
VectorLoops ==
    { \* one tagged vector loop
      <<t_loop, x_loop, z_loop>>,
      \* the vector loop has no tag
      <<t_loop, x_loop, [z_loop EXCEPT !.tag = FALSE]>>,
      \* two vector loops
      <<t_loop, [x_loop EXCEPT !.props = {"parallel", "vector"}, !.tag = TRUE], z_loop>>,
      \* a tagged vector loop whose upper bound is an expression, not a Symbol
      <<t_loop, x_loop, [z_loop EXCEPT !.lo = "blk", !.hi = "blk+step-1"]>> }

Reads == {<<>>, <<"u">>, <<"v">>, <<"u", "v">>, <<"v", "w">>}

Written == {"a", "b", "c", "d", "w"}

(* The Arrays of the sequence s, each once, in the order of s. *)
RECURSIVE distinct(_)
distinct(s) ==
    IF s = <<>> THEN <<>>
    ELSE LET r == distinct(SubSeq(s, 1, Len(s) - 1))
         IN IF s[Len(s)] \in Range(r) THEN r ELSE Append(r, s[Len(s)])

VectorNest(ls, reads, writes) == Nest(ls, distinct(reads \o writes), writes)

InitVector ==
    /\ elemental = no_efunc
    /\ mode = "advanced-safe-math"
    /\ passes = <<>>
    /\ params = NoKnobs
    /\ \E ls \in VectorLoops, reads \in Reads :
          \E m \in 0..MaxArrays : \E writes \in [1..m -> Written] :
              source = Tree(<<>>, <<VectorNest(ls, reads, writes)>>, <<>>)
    /\ env = DefaultEnv
    /\ error = ""
    /\ InitState

NextVector == OptimizeHalospots \/ LoopBlocking \/ Simdize \/ MinimizeRemainders

SpecVector == InitVector /\ [][NextVector]_vars

(***************************************************************************)
(* Halo optimization of a time loop whose body is any sequence of up to    *)
(* MaxNodes HaloSpots, nests and Expressions, followed or not by a second  *)
(* time loop.                                                              *)
(***************************************************************************)
Functions == {"u", "v"}

Names == <<"e1", "e2", "e3", "e4", "e5", "e6", "e7", "e8">>

(* A nest of two loops; the inner one is AFFINE or not. *)
HaloNest(f, affine) ==
    Nest(<<Iteration(<<"x">>, {"parallel", "affine"}, FALSE, FALSE),
           Iteration(<<"y">>, IF affine THEN {"parallel", "affine"} ELSE {"parallel"},
                     FALSE, FALSE)>>, <<f>>, <<f>>)

(* The nodes of the body: HaloSpots that are empty, that have "u" and      *)
(* nothing hoistable, that have a hoistable "v" alone or beside "u", a     *)
(* USELESS one, nests and Expressions.                                     *)
HaloKinds ==
    [k : {"halo"}, scheme : {{}, {"u"}}, hoistable : {{}},
     useless : {FALSE}, affine : BOOLEAN]
    \cup [k : {"halo"}, scheme : {{"v"}, {"u", "v"}}, hoistable : {{"v"}},
          useless : {FALSE}, affine : BOOLEAN]
    \cup {[k |-> "halo", scheme |-> {"u"}, hoistable |-> {"u"}, useless |-> TRUE,
           affine |-> TRUE]}
    \cup [k : {"nest"}, scheme : {{}}, hoistable : {{}}, useless : {FALSE},
          affine : BOOLEAN]
    \cup [k : {"expr"}, scheme : {{}}, hoistable : {{}}, useless : {FALSE},
          affine : {TRUE}]

node(kd, f) ==
    CASE kd.k = "halo" ->
            HaloSpot(kd.scheme, kd.hoistable, kd.useless, <<HaloNest(f, kd.affine)>>)
      [] kd.k = "nest" -> HaloNest(f, kd.affine)
      [] kd.k = "expr" -> Expression(f)

time_loop(ns) == IterationOver(<<"t">>, {"sequential", "affine"}, ns)

(* A second time loop, with HaloSpots of its own. *)
second_loop ==
    time_loop(<<HaloSpot({"v"}, {}, FALSE, <<HaloNest("e6", TRUE)>>),
                HaloSpot({"u"}, {"u"}, FALSE, <<HaloNest("e7", TRUE)>>),
                HaloNest("e8", TRUE)>>)

HaloTree(kds, rest) ==
    Tree(<<>>, <<time_loop([i \in DOMAIN kds |-> node(kds[i], Names[i])])>> \o rest,
         <<>>)

InitHalo ==
    /\ elemental = no_efunc
    /\ mode = "custom"
    /\ passes = <<"optcomms">>
    /\ params = NoKnobs
    /\ \E m \in 1..MaxNodes : \E kds \in [1..m -> HaloKinds] :
          \E rest \in {<<>>, <<second_loop>>} : source = HaloTree(kds, rest)
    /\ env = DefaultEnv
    /\ error = ""
    /\ InitState

NextHalo == OptimizeHalospots

SpecHalo == InitHalo /\ [][NextHalo]_vars

(***************************************************************************)
(* Calls to one ElementalFunction: the tiled Callable of a blocked x loop, *)
(* with none, some or all of its block parameters declared dynamic.        *)
(***************************************************************************)
Parameters == <<"u", "x_m", "x_M", "x_size">>

DynamicLists == {<<>>, <<"x">>, <<"x_size">>, <<"x", "x_size">>, <<"x_size", "x">>}

InitCall ==
    /\ mode = "custom"
    /\ passes = <<>>
    /\ params = NoKnobs
    /\ source = Tree(<<>>, <<>>, <<>>)
    /\ env = DefaultEnv
    /\ error = ""
    /\ elemental \in {ElementalFunction(<<"bf", 0>>, Parameters, dyn) :
                          dyn \in DynamicLists}
    /\ InitState

NextCall ==
    \/ MakeCall
    \/ \E k \in 1..MaxCalls : Remake(k)
    \/ \E k \in 1..MaxCalls : Rebuild(k)

SpecCall == InitCall /\ [][NextCall]_vars

(***************************************************************************)
(* Parallelization: the standard rewriters on one nest t > x > y > z whose *)
(* loops carry any of the properties the parallelizer's key looks at.      *)
(***************************************************************************)
OuterProps ==
    {{"parallel"}, {"parallel_if_atomic"}, {"sequential"},
     {"parallel", "elemental"}, {"parallel_if_atomic", "elemental"}}

InnerProps ==
    {{"parallel", "vector"}, {"parallel_if_atomic", "vector"}, {"parallel"},
     {"sequential"}}

ParallelNest(px, py, pz) ==
    Nest(<<t_loop, [x_loop EXCEPT !.props = px], [y_loop EXCEPT !.props = py],
           [z_loop EXCEPT !.props = pz]>>, <<"u">>, <<>>)

InitParallel ==
    /\ elemental = no_efunc
    /\ mode \in Modes \ {"custom"}
    /\ params \in Params
    /\ passes = <<>>
    /\ \E px \in OuterProps, py \in OuterProps, pz \in InnerProps :
          source = Tree(<<>>, <<ParallelNest(px, py, pz)>>, <<>>)
    /\ env = DefaultEnv
    /\ error = ""
    /\ InitState

SpecParallel == InitParallel /\ [][Next]_vars

(***************************************************************************)
(* Accesses to compile and cfunction of freshly built Operators.           *)
(***************************************************************************)
InitOperator ==
    /\ elemental = no_efunc
    /\ mode = "custom"
    /\ passes = <<>>
    /\ params = NoKnobs
    /\ source = Tree(<<>>, <<>>, <<>>)
    /\ env = DefaultEnv
    /\ error = ""
    /\ InitState

NextOperator ==
    \/ \E o \in Operators : Compile(o)
    \/ \E o \in Operators : Cfunction(o)

SpecOperator == InitOperator /\ [][NextOperator]_vars




(***************************************************************************)
(* Properties of the blocked nest (checked under SpecBlock).               *)
(***************************************************************************)
(* The eligible Iterations of the nest given to blocking and their number. *)
eligible == iterations(source.items[1].loops, ~params.blockinner)

K == Len(eligible)

(* Blocking has run and has rewritten the nest. *)
blocked == done /\ emitted # <<>>

(* All the emitted Calls have been run. *)
finished == blocked /\ ip > Len(emitted)

(* The iteration domain of the nest as it was given: the index tuples of    *)
(* the Iterations from the first eligible one down, each over the full      *)
(* range [min, max] of its Dimension.                                       *)
RECURSIVE tuples(_)
tuples(loops) ==
    IF loops = <<>> THEN {<<>>}
    ELSE {<<v>> \o t : v \in env[Head(loops).dim[1]].min .. env[Head(loops).dim[1]].max,
                      t \in tuples(Tail(loops))}

original ==
    tuples(SubSeq(source.items[1].loops, eligible[1], Len(source.items[1].loops)))

zero_offsets ==
    \A i \in DOMAIN source.items[1].loops : source.items[1].loops[i].offs = <<0, 0>>

(* C1: with zero boundary offsets, for every range and every tile size      *)
(* >= 1, the Calls emitted for a blocked nest never execute an index tuple  *)
(* outside the original iteration domain nor one twice, and once all of     *)
(* them have run every tuple of the domain has been executed exactly once.  *)
C1_ExactCover ==
    (blocked /\ zero_offsets) =>
        \E domain \in {original} :
            /\ \A t \in DOMAIN executed : executed[t] = 1 /\ t \in domain
            /\ finished => DOMAIN executed = domain

(* Three blocked axes, each with a non-empty interior and a non-empty       *)
(* remainder range, all eight Calls run.                                    *)
C1_Witness ==
    /\ finished /\ zero_offsets /\ K = 3
    /\ \A j \in 1..3 : /\ passed[1][j][1] <= passed[1][j][2]
                       /\ passed[8][j][1] <= passed[8][j][2]
    /\ BagCardinality(executed) = Cardinality(original)

(* The interior (1) or remainder (2) range that a Call takes on each axis. *)
selection(c) == [j \in DOMAIN c.args |-> c.args[j].sel]

(* C2: for a blocked nest with k >= 2 eligible loops exactly 2^k Calls to   *)
(* the tiled function are emitted, one for each assignment of the interior  *)
(* or the remainder range to each of the k blocked axes, none twice.        *)
C2_CallCount ==
    blocked =>
        \E its \in {eligible} : \E sels \in {[q \in DOMAIN emitted |-> selection(emitted[q])]} :
            /\ Len(its) >= 2
            /\ Len(emitted) = Pow2(Len(its))
            /\ \A q \in DOMAIN emitted :
                  /\ emitted[q].callee = efuncs[1].name
                  /\ \A j \in DOMAIN its :
                        emitted[q].args[j].axis = source.items[1].loops[its[j]].dim
            /\ Range(sels) = [DOMAIN its -> {1, 2}]
            /\ \A q, r \in DOMAIN sels : sels[q] = sels[r] => q = r

C2_Witness == blocked /\ K = 3 /\ Len(emitted) = 8

(* The number of axes on which a Call takes the remainder range. *)
remainders(c) == Cardinality({j \in DOMAIN c.args : c.args[j].sel = 2})

(* s comes before t in lexicographic order, the first axis most significant *)
lex_less(s, t) ==
    \E j \in DOMAIN s : s[j] < t[j] /\ \A i \in 1..(j - 1) : s[i] = t[i]

(* C3 as stated: the all-interior Call is first and the Calls come in       *)
(* non-decreasing number of remainder axes, for every k >= 2.               *)
C3_Stated ==
    blocked =>
        /\ remainders(emitted[1]) = 0
        /\ \A q, r \in DOMAIN emitted :
              q < r => remainders(emitted[q]) <= remainders(emitted[r])

(* C3: the Calls come in the lexicographic order of their assignments, the  *)
(* outermost axis most significant and interior before remainder: the       *)
(* all-interior Call is first, the all-remainder Call is last, and the      *)
(* number of remainder axes is non-decreasing along the sequence only for   *)
(* k = 2.                                                                   *)
C3_ProductOrder ==
    blocked =>
        \E k \in {K} : \E sels \in {[q \in DOMAIN emitted |-> selection(emitted[q])]} :
        \E rems \in {[q \in DOMAIN emitted |-> remainders(emitted[q])]} :
            /\ rems[1] = 0
            /\ rems[Len(rems)] = k
            /\ \A q, r \in DOMAIN sels : q < r => lex_less(sels[q], sels[r])
            /\ k = 2 => \A q, r \in DOMAIN rems : q < r => rems[q] <= rems[r]
            /\ k = 3 => rems[4] = 2 /\ rems[5] = 1

C3_Witness ==
    blocked /\ K = 3 /\ remainders(emitted[4]) > remainders(emitted[5])

(* The length of the range [lo, hi]. *)
span(lo, hi) == IF hi < lo THEN 0 ELSE hi - lo + 1

(* C4: for a blocked axis with bounds min <= max, size = max - min + 1 and  *)
(* tile size step >= 1, the interior range passed is                        *)
(* [min, max - (size mod step)], its length the largest multiple of step    *)
(* not exceeding size; the remainder range passed is [interiorMax + 1, max],*)
(* its length size mod step, empty when step divides size.  With min 0,     *)
(* max 99, step 16: interior [0, 95], remainder [96, 99].                   *)
C4_Ranges ==
    \A q \in DOMAIN passed : \A j \in DOMAIN passed[q] :
        LET a == env[emitted[q].args[j].axis[1]]
            size == a.max - a.min + 1
            v == passed[q][j]
            interiorMax == a.max - (size % a.step)
        IN /\ a.min <= a.max /\ a.step >= 1
           /\ emitted[q].args[j].sel = 1 =>
                 /\ v[1] = a.min /\ v[2] = interiorMax /\ v[3] = a.step
                 /\ span(v[1], v[2]) % a.step = 0
                 /\ span(v[1], v[2]) <= size
                 /\ size < span(v[1], v[2]) + a.step
                 /\ a = [min |-> 0, max |-> 99, step |-> 16] => v[2] = 95
           /\ emitted[q].args[j].sel = 2 =>
                 /\ v[1] = interiorMax + 1 /\ v[2] = a.max
                 /\ span(v[1], v[2]) = size % a.step
                 /\ size % a.step = 0 => v[2] < v[1]
                 /\ a = [min |-> 0, max |-> 99, step |-> 16] => v[1] = 96 /\ v[2] = 99

(* With min 0, max 99, step 16: the first Call passes the interior range of *)
(* x, the last its remainder range.                                         *)
C4_Witness ==
    /\ finished /\ env["x"] = [min |-> 0, max |-> 99, step |-> 16]
    /\ passed[1][1] = <<0, 95, 16>>
    /\ passed[Len(passed)][1][1] = 96 /\ passed[Len(passed)][1][2] = 99

(***************************************************************************)
(* Properties of the rewriters (checked under Spec).                       *)
(***************************************************************************)
(* The conditions under which blocking rewrites a nest, as the             *)
(* specification words them.                                               *)
eligible_loops(item, p) ==
    {i \in DOMAIN item.loops :
        /\ "parallel" \in item.loops[i].props
        /\ p.blockinner \/ "vector" \notin item.loops[i].props}

first_eligible(item, p) ==
    CHOOSE i \in eligible_loops(item, p) : \A j \in eligible_loops(item, p) : i <= j

accepted(item, p) ==
    /\ Cardinality(eligible_loops(item, p)) >= 2
    /\ \A i \in DOMAIN item.loops :
          (first_eligible(item, p) <= i /\ i < Len(item.loops)) => ~item.loops[i].extra
    /\ \/ \E i \in 1..(first_eligible(item, p) - 1) :
             "sequential" \in item.loops[i].props
       \/ p.blockalways

dims_of_nest(item) ==
    {item.loops[i].dim : i \in DOMAIN item.loops}
    \cup {item.loops[i].bd : i \in DOMAIN item.loops}
    \cup UNION {Range(item.calls[q].steps) : q \in DOMAIN item.calls}
    \cup UNION {{item.calls[q].args[j].dim : j \in DOMAIN item.calls[q].args} :
                   q \in DOMAIN item.calls}

dims_referenced(tree) ==
    {d \in UNION {dims_of_nest(tree.items[n]) : n \in DOMAIN tree.items} : is_Block(d)}

(* The Callables that a tree calls, each with the BlockDimensions that the  *)
(* Call hands over.                                                         *)
calls_of(tree) ==
    UNION {Range(tree.items[n].calls) : n \in DOMAIN tree.items}

trees == {nodes} \cup Range(efuncs)

(* A Call is served by a Callable of State.efuncs with its name that        *)
(* declares the BlockDimensions the Call hands over.                        *)
served(c) ==
    \E e \in Range(efuncs) :
        /\ e.name = c.callee
        /\ Range(c.steps) \subseteq Range(e.dynamic)
        /\ \A j \in DOMAIN c.args : c.args[j].dim \in Range(e.dynamic)

(* C6 as stated: once the pipeline has run, every BlockDimension and every  *)
(* Callable referenced in the main tree or in the body of a Callable of     *)
(* State.efuncs is in State.dimensions / State.efuncs.                      *)
C6_Stated ==
    done =>
        \A t \in trees :
            /\ dims_referenced(t) \subseteq Range(dimensions)
            /\ \A c \in calls_of(t) : served(c)

(* Blocking has run twice with 'blockalways': the tiled Callable now calls  *)
(* with BlockDimensions of BlockDimensions, which are not in State.         *)
C6_Witness ==
    /\ done /\ params.blockalways /\ Len(efuncs) >= 2
    /\ \E d \in dims_referenced(efuncs[1]) : Len(d) = 3 /\ d \notin Range(dimensions)

(* C7: the j-th pass invocation is applied once to the main tree and once   *)
(* to each Callable already in State.efuncs, whose rewritten version takes  *)
(* the place of the old one; the Callables that the invocation itself adds  *)
(* are not visited by it.  Hence a Callable has been visited by exactly the *)
(* invocations that followed the blocking pass that made it.                *)
C7_PassVisits ==
    [][~done =>
        \E f \in {pipeline[pc]} :
            /\ pc = Len(nodes.hist) + 1
            /\ nodes'.hist = Append(nodes.hist, f)
            /\ Len(efuncs') >= Len(efuncs)
            /\ \A i \in DOMAIN efuncs :
                  /\ efuncs'[i].name = efuncs[i].name
                  /\ efuncs'[i].hist = Append(efuncs[i].hist, f)
            /\ \A i \in (Len(efuncs) + 1)..Len(efuncs') :
                  /\ efuncs'[i].hist = <<>>
                  /\ f = "_loop_blocking"
            /\ \A i \in DOMAIN efuncs' :
                  \E m \in {Len(nodes'.hist) - Len(efuncs'[i].hist)} :
                      /\ m >= 1
                      /\ nodes'.hist[m] = "_loop_blocking"
                      /\ efuncs'[i].hist = SubSeq(nodes'.hist, m + 1, Len(nodes'.hist))
    ]_vars

(* The advanced pipeline has run: the tiled Callable was visited by the two *)
(* passes after blocking, and not by those before.                          *)
C7_Witness ==
    /\ done /\ mode = "advanced" /\ ~params.openmp /\ Len(efuncs) >= 2
    /\ efuncs[1].hist = <<"_simdize", "_minimize_remainders">>
    /\ Len(nodes.hist) = 5

(* The Callables as the emitted code sees them. *)
codes(es) == [i \in DOMAIN es |-> Code(es[i])]

(* C8 as stated: every pass only appends to State's lists of Callables,     *)
(* dimensions, headers and inputs; no entry is removed or overwritten.      *)
C8_Stated ==
    [][/\ IsPrefix(codes(efuncs), codes(efuncs'))
       /\ IsPrefix(dimensions, dimensions')
       /\ IsPrefix(includes, includes')
       /\ IsPrefix(input, input')]_vars

(* C8: every pass only appends to State's lists of dimensions, headers and  *)
(* inputs; the list of Callables never shrinks and keeps the name at each   *)
(* position, but a pass replaces each Callable already in it by its         *)
(* rewritten version.                                                       *)
C8_AppendOnly ==
    [][/\ IsPrefix(dimensions, dimensions')
       /\ IsPrefix(includes, includes')
       /\ IsPrefix(input, input')
       /\ Len(efuncs) <= Len(efuncs')
       /\ \A i \in DOMAIN efuncs : efuncs'[i].name = efuncs[i].name
       /\ ~done => \A i \in DOMAIN efuncs :
                      efuncs'[i].hist = Append(efuncs[i].hist, pipeline[pc])]_vars

(* An entry of State.efuncs has been overwritten: the vector loop of the    *)
(* tiled Callable carries the pragmas that a later pass gave it.            *)
C8_Witness ==
    /\ Len(efuncs) >= 2 /\ Len(dimensions) >= 2 /\ Len(includes) >= 2
    /\ \E i \in DOMAIN efuncs[1].items[1].loops :
          efuncs[1].items[1].loops[i].pragmas # <<>>

(* The passes of a profile after parallelization, given the openmp knob. *)
omp(p) == IF p.openmp THEN <<"_parallelize">> ELSE <<>>

(* C9 as stated: advanced runs flag setup, halo optimization, blocking,     *)
(* vectorization, parallelization (iff openmp), function outlining,         *)
(* remainder elimination; advanced-safe-math the same without flag setup;   *)
(* basic only flag setup.                                                   *)
C9_Stated ==
    done =>
        /\ mode = "advanced" =>
              nodes.hist = <<"_avoid_denormals", "_optimize_halospots",
                             "_loop_blocking", "_simdize">> \o omp(params)
                           \o <<"_create_efuncs", "_minimize_remainders">>
        /\ mode = "advanced-safe-math" =>
              nodes.hist = <<"_optimize_halospots", "_loop_blocking", "_simdize">>
                           \o omp(params)
                           \o <<"_create_efuncs", "_minimize_remainders">>
        /\ mode = "basic" => nodes.hist = <<"_avoid_denormals">>

(* The passes the profiles run, in order. *)
advanced_order(p) ==
    <<"_avoid_denormals", "_optimize_halospots", "_loop_blocking", "_simdize">>
    \o omp(p) \o <<"_minimize_remainders">>

(* C9: advanced runs, once each and in this order, flag setup, halo         *)
(* optimization, blocking, vectorization, parallelization (iff openmp is    *)
(* true) and remainder elimination, with no function-outlining pass;        *)
(* advanced-safe-math runs the same without flag setup; basic runs only     *)
(* flag setup.                                                              *)
C9_ProfileOrder ==
    mode \in {"advanced", "advanced-safe-math", "basic"} =>
        \E want \in {CASE mode = "advanced" -> advanced_order(params)
                       [] mode = "advanced-safe-math" -> Tail(advanced_order(params))
                       [] mode = "basic" -> <<"_avoid_denormals">>} :
            /\ IsPrefix(nodes.hist, want)
            /\ done => nodes.hist = want /\ timings = want
            /\ "_create_efuncs" \notin Range(nodes.hist)

C9_Witness ==
    /\ done /\ mode = "advanced" /\ params.openmp
    /\ Len(nodes.hist) = 6 /\ nodes.hist[5] = "_parallelize"
    /\ nodes.hist[6] = "_minimize_remainders"

(* C10 as stated: speculative runs the passes of advanced, the diagnostic   *)
(* pass about WRAPPABLE loops and the non-temporal-store pass.              *)
C10_Stated ==
    (done /\ mode = "speculative") =>
        /\ \A i \in DOMAIN advanced_order(params) :
              advanced_order(params)[i] \in Range(nodes.hist)
        /\ "_loop_wrapping" \in Range(nodes.hist)
        /\ "_nontemporal_stores" \in Range(nodes.hist)

(* C10: speculative runs the passes of advanced and, between halo           *)
(* optimization and blocking, the diagnostic pass about WRAPPABLE loops,    *)
(* which warns once for each such loop of the tree; it never runs the       *)
(* non-temporal-store pass.                                                 *)
C10_Speculative ==
    mode = "speculative" =>
        \E want \in {<<"_avoid_denormals", "_optimize_halospots", "_loop_wrapping",
                       "_loop_blocking", "_simdize">> \o omp(params)
                     \o <<"_minimize_remainders">>} :
            /\ IsPrefix(nodes.hist, want)
            /\ done => nodes.hist = want
            /\ "_nontemporal_stores" \notin Range(nodes.hist) \cup Range(timings)
            /\ "_loop_wrapping" \in Range(nodes.hist) =>
                  Len(warnings) = Sum([n \in DOMAIN source.items |->
                      Cardinality({i \in DOMAIN source.items[n].loops :
                          "wrappable" \in source.items[n].loops[i].props})])

C10_Witness ==
    /\ done /\ mode = "speculative" /\ Len(warnings) = 2
    /\ nodes.hist[3] = "_loop_wrapping" /\ nodes.hist[4] = "_loop_blocking"

(***************************************************************************)
(* Properties of the custom pipeline (checked under SpecCustom).           *)
(***************************************************************************)
unknown_names == {i \in DOMAIN passes : passes[i] \notin DOMAIN passes_mapper}

(* C11: a custom pipeline whose list holds a name outside passes_mapper     *)
(* fails at construction with DLEException and runs no pass, whether the   *)
(* list was given as a string or as a tuple.                               *)
C11_Stated ==
    (mode = "custom" /\ unknown_names # {})
        => (error = "DLEException" /\ timings = <<>>)

(* A list given as a string, with passes applied before the unknown name   *)
(* is reached and KeyError is raised.                                      *)
C11_Witness ==
    /\ mode = "custom" /\ unknown_names # {}
    /\ error = "KeyError"
    /\ timings # <<>>
    /\ Code(nodes) # Code(source)

(***************************************************************************)
(* Properties of halo optimization (checked under SpecHalo).               *)
(***************************************************************************)
(* The Functions written by the nests and Expressions among the siblings   *)
(* ns and in the bodies of their HaloSpots, in the order of the tree.      *)
RECURSIVE statements(_)
statements(ns) ==
    flatten([i \in DOMAIN ns |->
        IF is_HaloSpot(ns[i]) THEN statements(ns[i].body)
        ELSE IF is_Nest(ns[i]) THEN ns[i].writes
        ELSE <<ns[i].expr>>])

(* The bodies of the time loops given to the pass. *)
given == [n \in DOMAIN source.items |-> source.items[n].nodes]

optimized == done /\ pipeline = <<"_optimize_halospots">>

(* C12: every statement and loop nest of the input tree is in the output   *)
(* tree exactly once and in the same relative order.                       *)
C12_Stated ==
    optimized =>
        \A n \in DOMAIN given :
            statements(nodes.items[n].nodes) = statements(given[n])

(* Two affine nests follow a HaloSpot: the first of them is in no HaloSpot *)
(* and nowhere else in the tree that the pass returns.                     *)
C12_Witness ==
    /\ optimized
    /\ \E n \in DOMAIN given : \E i \in DOMAIN given[n] :
          /\ i + 2 <= Len(given[n])
          /\ is_HaloSpot(given[n][i]) /\ ~is_empty(given[n][i])
          /\ ~given[n][i].is_Useless
          /\ is_Nest(given[n][i + 1]) /\ all_affine(given[n][i + 1])
          /\ is_Nest(given[n][i + 2]) /\ all_affine(given[n][i + 2])
          /\ given[n][i + 1].writes[1] \notin Range(statements(nodes.items[n].nodes))
          /\ given[n][i + 2].writes[1] \in Range(statements(nodes.items[n].nodes))

(* The HaloSpots among the siblings ns, by position, and their schemes. *)
halo_spots(ns) == {i \in DOMAIN ns : is_HaloSpot(ns[i])}

schemes(ns) ==
    LET hs == SetToSortedSeq(halo_spots(ns))
    IN [k \in DOMAIN hs |-> ns[hs[k]].halo_scheme]

(* The siblings that the hoisting step is given and those it returns. *)
grouped == [n \in DOMAIN given |-> drop_useless(given[n])]
hoisted == [n \in DOMAIN given |-> hoist(grouped[n])]

(* C13: in every group of HaloSpots of one Iteration the root's new scheme *)
(* is its old scheme united with the hoistable entries of every later      *)
(* HaloSpot, each later HaloSpot's new scheme is its old one less its own  *)
(* hoistable entries, and no entry of the group is lost; the schemes that  *)
(* are not empty are those of the tree the pass returns.                   *)
C13_HoistMerge ==
    \A n \in DOMAIN given :
        \E old \in {grouped[n]} : \E new \in {hoisted[n]} : \E hs \in {halo_spots(old)} :
            /\ Len(new) = Len(old)
            /\ \A i \in DOMAIN old \ hs : new[i] = old[i]
            /\ \A i \in hs :
                  /\ is_HaloSpot(new[i])
                  /\ new[i].body = old[i].body
                  /\ new[i].halo_scheme =
                        IF \A j \in hs : i <= j
                        THEN old[i].halo_scheme
                             \cup {f \in Functions : \E d \in hs \ {i} :
                                      f \in old[d].halo_scheme /\ f \in old[d].hoistable}
                        ELSE {f \in old[i].halo_scheme : f \notin old[i].hoistable}
            /\ UNION {new[i].halo_scheme : i \in hs}
                  = UNION {old[i].halo_scheme : i \in hs}
            /\ optimized =>
                  schemes(nodes.items[n].nodes)
                      = SelectSeq(schemes(new), LAMBDA sc : sc # {})

(* A root without "v" and a later HaloSpot with "u" and a hoistable "v":   *)
(* in the tree returned the root has "v" and the later HaloSpot only "u".  *)
C13_Witness ==
    /\ optimized
    /\ \E i, d \in halo_spots(grouped[1]) :
          /\ i < d
          /\ \A j \in halo_spots(grouped[1]) : i <= j
          /\ "v" \notin grouped[1][i].halo_scheme
          /\ grouped[1][d].halo_scheme = {"u", "v"}
          /\ grouped[1][d].hoistable = {"v"}
          /\ hoisted[1][i].halo_scheme # grouped[1][i].halo_scheme
          /\ hoisted[1][d].halo_scheme = {"u"}
          /\ \E k \in DOMAIN schemes(nodes.items[1].nodes) :
                schemes(nodes.items[1].nodes)[k] = {"u"}

(* The siblings that the third step returns. *)
elided == [n \in DOMAIN given |-> drop_empty(hoisted[n])]

(* s is t with some of its elements left out. *)
RECURSIVE is_subsequence(_, _)
is_subsequence(s, t) ==
    IF s = <<>> THEN TRUE
    ELSE IF t = <<>> THEN FALSE
    ELSE IF Head(s) = Head(t) THEN is_subsequence(Tail(s), Tail(t))
    ELSE is_subsequence(s, Tail(t))

nest_of(hs) == hs.body[1]
written(n) == n.writes[1]

(* Every Iteration of the nest n has the AFFINE property. *)
affine_nest(n) == \A l \in Range(n.loops) : "affine" \in l.props

(* The statement f is in the body of the k-th of the siblings ns. *)
inside(ns, k, f) == is_HaloSpot(ns[k]) /\ f \in Range(statements(ns[k].body))

(* An empty HaloSpot with an affine body, or an affine nest: what the last *)
(* step finds to be an Iteration with affine loops only once the empty     *)
(* HaloSpots have been replaced by their bodies.                           *)
sinkable(o) ==
    \/ is_HaloSpot(o) /\ is_empty(o) /\ affine_nest(nest_of(o))
    \/ is_Nest(o) /\ affine_nest(o)

nests(ns) == {i \in DOMAIN ns : is_Nest(ns[i])}

(* C16: a nest that follows a HaloSpot is taken from its place, into the   *)
(* HaloSpot, only if all its loops are affine and only affine nests lie    *)
(* between the HaloSpot and it; a nest with a loop that is not affine      *)
(* stays where it is, and so does every nest after it up to the next       *)
(* HaloSpot; what a HaloSpot gains are affine nests that followed it.      *)
C16_AffineOnly ==
    optimized =>
        \A n \in DOMAIN given :
            \E e \in {elided[n]} : \E out \in {nodes.items[n].nodes} :
                /\ \A i \in nests(e) :
                      /\ (\A k \in DOMAIN out : out[k] # e[i])
                            => /\ affine_nest(e[i])
                               /\ \E p \in halo_spots(e) :
                                     /\ p < i
                                     /\ \A j \in (p + 1)..(i - 1) :
                                           is_Nest(e[j]) /\ affine_nest(e[j])
                      /\ ~affine_nest(e[i])
                            => \A j \in nests(e) :
                                  (/\ i <= j
                                   /\ \A h \in i..j : ~is_HaloSpot(e[h]))
                                  => \E k \in DOMAIN out : out[k] = e[j]
                /\ \A k \in halo_spots(out) : \A f \in Range(statements(out[k].body)) :
                      \E p \in halo_spots(e) :
                          /\ written(nest_of(e[p])) \in Range(statements(out[k].body))
                          /\ \/ f = written(nest_of(e[p]))
                             \/ \E i \in nests(e) :
                                   /\ p < i /\ written(e[i]) = f /\ affine_nest(e[i])
                                   /\ \A j \in (p + 1)..(i - 1) :
                                         is_Nest(e[j]) /\ affine_nest(e[j])

(* A HaloSpot, a nest with a loop that is not affine, an affine nest: both *)
(* nests are where they were in the tree returned.                         *)
C16_Witness ==
    /\ optimized
    /\ Len(given[1]) = 3
    /\ is_HaloSpot(given[1][1]) /\ ~is_empty(given[1][1]) /\ ~given[1][1].is_Useless
    /\ is_Nest(given[1][2]) /\ ~affine_nest(given[1][2])
    /\ is_Nest(given[1][3]) /\ affine_nest(given[1][3])
    /\ nodes.items[1].nodes = given[1]

(* The tree given to the pass holds no HaloSpot. *)
no_halo_spot == \A n \in DOMAIN given : halo_spots(given[n]) = {}

(* C17: on a tree without HaloSpots each of the four steps returns what it *)
(* is given, the mapper of the last step stays empty, and the tree         *)
(* returned is the tree given.                                             *)
C17_Identity ==
    no_halo_spot =>
        /\ \A n \in DOMAIN given :
              /\ grouped[n] = given[n]
              /\ hoisted[n] = given[n]
              /\ elided[n] = given[n]
              /\ sink_scan(given[n], 1, 0, no_mapper) = no_mapper
              /\ sink(given[n]) = given[n]
        /\ optimized => Code(nodes) = Code(source)

(* Two affine nests and an Expression under the time loop, no HaloSpot:    *)
(* the pass has run and the tree is the one given.                         *)
C17_Witness ==
    /\ optimized
    /\ no_halo_spot
    /\ Len(given[1]) = 3
    /\ is_Nest(given[1][1]) /\ affine_nest(given[1][1])
    /\ is_Nest(given[1][2]) /\ affine_nest(given[1][2])
    /\ ~is_Nest(given[1][3])
    /\ timings = <<"_optimize_halospots">>
    /\ nodes.items = source.items

(***************************************************************************)
(* Properties of vectorization and remainder elimination (checked under    *)
(* SpecVector).                                                            *)
(***************************************************************************)
simdized == "_simdize" \in Range(timings)

(* The vector loops of the tree, each as <<nest, loop>>. *)
vector_loops ==
    UNION {{<<n, i>> : i \in {l \in DOMAIN nodes.items[n].loops :
                                 is_Vectorizable(nodes.items[n].loops[l])}} :
              n \in DOMAIN nodes.items}

(* The tensors of the nest whose shape[-1] is a multiple of the items of a *)
(* vector register.                                                        *)
multiples(item) == {j \in Range(item.tensors) : Shape[j] % SimdItems = 0}

one_tagged_vector_loop(item) ==
    /\ Cardinality({i \in DOMAIN item.loops : is_Vectorizable(item.loops[i])}) = 1
    /\ \A i \in DOMAIN item.loops : is_Vectorizable(item.loops[i]) => item.loops[i].tag

(* The padding computed for the Array j: the p in 1..simd_items that makes *)
(* shape[-1] + p a multiple of simd_items.                                 *)
amount(j) == CHOOSE p \in 1..simd_items(j) : (Shape[j] + p) % simd_items(j) = 0

(* The number of Expressions of the nest that write the Array j. *)
writers(item, j) == Cardinality({k \in DOMAIN item.writes : item.writes[k] = j})

minimized == "_minimize_remainders" \in Range(timings)

least(j) == CHOOSE p \in 0..(simd_items(j) - 1) : (Shape[j] + p) % simd_items(j) = 0

(* C20: the padding computed for a written Array is the least p >= 0 with  *)
(* (shape[-1] + p) mod simd_items = 0: it is added to the padding of the   *)
(* Arrays written when it is the same for all of them, and nothing is      *)
(* padded otherwise.                                                       *)
C20_Stated ==
    [][MinimizeRemainders =>
        \A n \in DOMAIN nodes.items :
            \E item \in {nodes.items[n]} :
                one_tagged_vector_loop(item) =>
                    IF Cardinality({least(j) : j \in Range(item.writes)}) = 1
                    THEN \A j \in Range(item.writes) :
                            writers(item, j) = 1 => padding'[j] = padding[j] + least(j)
                    ELSE padding' = padding]_vars

(* C20, as the code has it: the padding computed for a written Array is    *)
(* simd_items - shape[-1] mod simd_items, the least p >= 1 that makes      *)
(* shape[-1] + p a multiple of simd_items, so 1 <= p <= simd_items and an  *)
(* aligned extent gets simd_items; with 8 items, 50 and 50 give 6 and 6    *)
(* and both Arrays are padded by 6, 50 and 48 give 6 and 8 and nothing is  *)
(* padded.                                                                 *)
C20_WholeVector ==
    [][MinimizeRemainders =>
        \A n \in DOMAIN nodes.items :
            \E item \in {nodes.items[n]} :
                one_tagged_vector_loop(item) =>
                    \E p \in {[j \in Range(item.writes) |->
                                 simd_items(j) - (Shape[j] % simd_items(j))]} :
                        /\ \A j \in DOMAIN p :
                              /\ p[j] \in 1..simd_items(j)
                              /\ (Shape[j] + p[j]) % simd_items(j) = 0
                              /\ Shape[j] % simd_items(j) = 0 => p[j] = simd_items(j)
                              /\ Shape[j] = 50 /\ simd_items(j) = 8 => p[j] = 6
                              /\ Shape[j] = 48 /\ simd_items(j) = 8 => p[j] = 8
                        /\ IF \E j \in DOMAIN p : \A k \in DOMAIN p : p[k] = p[j]
                           THEN \A j \in DOMAIN p :
                                   writers(item, j) = 1 => padding'[j] = padding[j] + p[j]
                           ELSE padding' = padding]_vars

(* The Array "c", of extent 48, written in a nest with one tagged vector   *)
(* loop: it is padded by 8.                                                *)
C20_Witness ==
    /\ minimized
    /\ one_tagged_vector_loop(source.items[1])
    /\ source.items[1].writes = <<"c">>
    /\ Shape["c"] % simd_items("c") = 0
    /\ padding["c"] = simd_items("c")

(* root.symbolic_max is a Symbol for every vector loop of the nest. *)
symbolic_endpoint(item) ==
    \A i \in DOMAIN item.loops :
        is_Vectorizable(item.loops[i]) => item.loops[i].hi \in {"max", "padded"}

(* C21: a nest for which a gating condition of remainder elimination       *)
(* fails (not exactly one vector loop, no tag, an upper bound that is not  *)
(* a Symbol) is returned as it was, and no padding has changed.            *)
C21_Stated ==
    [][MinimizeRemainders =>
        \A n \in DOMAIN nodes.items :
            \E item \in {nodes.items[n]} :
                ~(one_tagged_vector_loop(item) /\ symbolic_endpoint(item))
                    => /\ nodes'.items[n] = item
                       /\ padding' = padding]_vars

(* A nest with one tagged vector loop whose upper bound is not a Symbol,   *)
(* writing the Array "a": the nest is as it was before the pass, with the  *)
(* same bound and no declaration in front, and "a" is padded by 6.         *)
C21_Witness ==
    /\ minimized
    /\ one_tagged_vector_loop(source.items[1])
    /\ ~symbolic_endpoint(source.items[1])
    /\ source.items[1].writes = <<"a">>
    /\ nodes.items[1].header = <<>>
    /\ \A i \in DOMAIN nodes.items[1].loops :
          nodes.items[1].loops[i].hi = source.items[1].loops[i].hi
    /\ padding["a"] = 6

(***************************************************************************)
(* ElementalCall: invalid overlays.                                        *)
(***************************************************************************)
(* The slots a parameter is declared with: two for a Dimension's min and   *)
(* max, one for a scalar, none if it was not declared dynamic.             *)
declared(f, k) == \E q \in DOMAIN f.mapper : f.mapper[q][1] = k
slot_count(k) == IF is_Dimension(k) THEN 2 ELSE 1

invalid(f, o) ==
    \E q \in DOMAIN o :
        ~declared(f, o[q][1]) \/ Len(o[q][2]) # slot_count(o[q][1])

(* C22: a call construction whose overlay names a parameter that was not   *)
(* declared dynamic, or gives a declared parameter a number of values      *)
(* other than its slot count, raises a ValueError and leaves the           *)
(* function's parameters and slot map and every Call built before          *)
(* unchanged, also when valid items of the overlay precede the invalid one.*)
C22_Stated ==
    [][(MakeCall /\ error' # "")
          => /\ error' = "ValueError"
             /\ calls' = calls
             /\ elemental' = elemental]_vars

(* What does hold: some exception is raised and nothing changes. *)
C22_RaisesUnchanged ==
    [][MakeCall =>
          \/ /\ error' = "" /\ Len(calls') = Len(calls) + 1
             /\ ~invalid(elemental, calls'[Len(calls')].built.dynamic_args_mapper)
          \/ /\ error' \in {"ValueError", "TypeError"}
             /\ calls' = calls /\ elemental' = elemental]_vars

(* A Call was built, then an overlay naming the undeclared u after a valid *)
(* item was refused with a TypeError; the Call and the function are as     *)
(* they were.                                                              *)
C22_Witness ==
    /\ elemental = ElementalFunction(<<"bf", 0>>, Parameters, <<"x", "x_size">>)
    /\ error = "TypeError"
    /\ Len(calls) = 1
    /\ calls[1] = make_call(elemental, <<<<"x", <<number(1), number(2)>>>>>>, FALSE)
    /\ sanity_check(elemental.mapper,
                    <<<<"x", <<number(1), number(2)>>>>, <<"u", <<number(1)>>>>>>)
           = "TypeError"

(***************************************************************************)
(* ElementalCall: round trips.                                             *)
(***************************************************************************)
(* What two Calls are compared on: the callee, the arguments and the slot  *)
(* map.                                                                    *)
same_call(c, e) ==
    c.name = e.name /\ c.arguments = e.arguments /\ c.mapper = e.mapper

(* C23: a Call made from the function with the overlay set to the dynamic  *)
(* values of a Call c built before, in replace mode, has the argument list *)
(* of c, and ec._rebuild(arguments=ec.arguments) is a Call equal to ec.    *)
C23_RoundTrip ==
    [][/\ \A k \in 1..MaxCalls :
             Remake(k) => calls'[Len(calls')].arguments = calls[k].arguments
       /\ \A k \in 1..MaxCalls :
             Rebuild(k) => same_call(calls'[Len(calls')], calls[k])]_vars

(* A Call made in incremental mode with both dynamic parameters overlaid,  *)
(* then made again from its own dynamic values.                            *)
C23_Witness ==
    /\ Len(calls) = 2
    /\ calls[1].built.incr = TRUE
    /\ Len(calls[1].built.dynamic_args_mapper) = 2
    /\ calls[1].arguments # elemental.parameters
    /\ calls[2].built.incr = FALSE
    /\ calls[2].built.dynamic_args_mapper = dynamic_defaults(calls[1])
    /\ calls[2].arguments = calls[1].arguments

(***************************************************************************)
(* Parallelization.                                                        *)
(***************************************************************************)
thread_level(l) ==
    /\ l.props \cap {"parallel", "parallel_if_atomic"} # {}
    /\ "vector" \notin l.props
    /\ "elemental" \notin l.props

threaded(l) == \E q \in DOMAIN l.pragmas : l.pragmas[q] = <<"omp-parallel-for">>

(* In every nest of the tree after, the loop that carries the thread-level *)
(* pragma is the outermost loop of the tree before that is eligible.       *)
outermost_eligible(before, after) ==
    \A n \in DOMAIN before.items :
        \A i \in DOMAIN before.items[n].loops :
            threaded(after.items[n].loops[i])
                <=> /\ thread_level(before.items[n].loops[i])
                    /\ \A j \in 1..(i - 1) : ~thread_level(before.items[n].loops[j])

(* C24: the loops the parallelizer may annotate are exactly those that are *)
(* PARALLEL-RELAXED and neither VECTORIZABLE nor ELEMENTIZABLE, and in the *)
(* standard profiles the pass runs only when the openmp parameter is true. *)
C24_Eligible ==
    [][Parallelize =>
          /\ outermost_eligible(nodes, nodes')
          /\ \A e \in DOMAIN efuncs : outermost_eligible(efuncs[e], efuncs'[e])
          /\ (mode # "custom" => params.openmp = TRUE)]_vars

(* The pass ran on a nest whose outermost relaxed-parallel loop is         *)
(* ELEMENTIZABLE and whose innermost is VECTORIZABLE: the loop in between  *)
(* got the pragma.                                                         *)
C24_Witness ==
    /\ done
    /\ params.openmp
    /\ source.items[1] = ParallelNest({"parallel", "elemental"}, {"parallel_if_atomic"},
                                     {"parallel", "vector"})
    /\ Len(nodes.items[1].loops) = 4
    /\ threaded(nodes.items[1].loops[3])
    /\ ~threaded(nodes.items[1].loops[2])
    /\ ~threaded(nodes.items[1].loops[4])

(***************************************************************************)
(* Vectorization: what it leaves alone.                                    *)
(***************************************************************************)
has_vector_loop(t) ==
    \E n \in DOMAIN t.items : \E i \in DOMAIN t.items[n].loops :
        "vector" \in t.items[n].loops[i].props

(* after is before, but for pragmas added to the VECTORIZABLE loops. *)
hints_only(before, after) ==
    /\ Code([after EXCEPT !.items = before.items]) = Code(before)
    /\ DOMAIN after.items = DOMAIN before.items
    /\ \A n \in DOMAIN before.items :
          /\ [after.items[n] EXCEPT !.loops = before.items[n].loops] = before.items[n]
          /\ DOMAIN after.items[n].loops = DOMAIN before.items[n].loops
          /\ \A i \in DOMAIN before.items[n].loops :
                \E l \in {before.items[n].loops[i]} :
                    IF "vector" \in l.props
                    THEN /\ [after.items[n].loops[i] EXCEPT !.pragmas = l.pragmas] = l
                         /\ IsPrefix(l.pragmas, after.items[n].loops[i].pragmas)
                         /\ Len(after.items[n].loops[i].pragmas) > Len(l.pragmas)
                    ELSE after.items[n].loops[i] = l

(* C25: vectorization leaves a tree without VECTORIZABLE loops as it is,   *)
(* and in any tree changes nothing but the pragmas of the VECTORIZABLE     *)
(* loops, to which it adds: bounds, properties and body of those loops and *)
(* every other node stay as they were.                                     *)
C25_HintsOnly ==
    [][Simdize =>
          /\ hints_only(nodes, nodes')
          /\ ~has_vector_loop(nodes) => Code(nodes') = Code(nodes)
          /\ DOMAIN efuncs' = DOMAIN efuncs
          /\ \A e \in DOMAIN efuncs :
                /\ hints_only(efuncs[e], efuncs'[e])
                /\ ~has_vector_loop(efuncs[e]) => Code(efuncs'[e]) = Code(efuncs[e])]_vars

(* After blocking and vectorization: the main tree, which holds no         *)
(* VECTORIZABLE loop any more, is the tree blocking left, and in the tiled *)
(* Callable only the VECTORIZABLE loop carries pragmas.                    *)
C25_Witness ==
    /\ done
    /\ simdized
    /\ ~params.openmp
    /\ Len(efuncs) = 2
    /\ ~has_vector_loop(nodes)
    /\ \A i \in DOMAIN nodes.items[1].loops : nodes.items[1].loops[i].pragmas = <<>>
    /\ has_vector_loop(efuncs[1])
    /\ \A i \in DOMAIN efuncs[1].items[1].loops :
          \E l \in {efuncs[1].items[1].loops[i]} :
              ("vector" \in l.props) <=> (l.pragmas # <<>>)

(***************************************************************************)
(* Operator: compiling and loading once.                                   *)
(***************************************************************************)
count(what, o) ==
    Cardinality({q \in DOMAIN invoked : invoked[q] = <<what, o>>})

(* C26: whatever the accesses to compile and cfunction of an Operator,     *)
(* jit_compile is called at most once for it and its shared library is     *)
(* loaded at most once.                                                    *)
C26_Stated ==
    \A o \in Operators : count("jit_compile", o) <= 1 /\ count("load", o) <= 1

(* What does hold: the library is loaded at most once, and nothing is      *)
(* compiled once it is loaded.                                             *)
C26_LoadedOnce ==
    \A o \in Operators :
        /\ count("load", o) <= 1
        /\ \A p, q \in DOMAIN invoked :
              (invoked[p] = <<"load", o>> /\ invoked[q] = <<"jit_compile", o>>) => q < p

(* compile, compile, cfunction on one Operator: compiled three times. *)
C26_Witness ==
    /\ invoked = << <<"jit_compile", "Kernel">>, <<"jit_compile", "Kernel">>,
                    <<"jit_compile", "Kernel">>, <<"load", "Kernel">> >>
    /\ cfunction["Kernel"] # None

(***************************************************************************)
(* Blocking with boundary offsets (checked under SpecOffsets).             *)
(***************************************************************************)
(* The iteration domain of the nest as it was given, each Iteration over   *)
(* [min + a, max + b] for its offsets (a, b).                              *)
RECURSIVE offset_tuples(_)
offset_tuples(loops) ==
    IF loops = <<>> THEN {<<>>}
    ELSE {<<v>> \o t :
            v \in (env[Head(loops).dim[1]].min + Head(loops).offs[1])
                    .. (env[Head(loops).dim[1]].max + Head(loops).offs[2]),
            t \in offset_tuples(Tail(loops))}

offset_domain ==
    offset_tuples(SubSeq(source.items[1].loops, eligible[1], Len(source.items[1].loops)))

nonzero_offsets ==
    \E i \in Range(eligible) : source.items[1].loops[i].offs # <<0, 0>>

(* The j-th inter-block loop carries the offsets of the j-th blocked loop, *)
(* the j-th intra-block loop none, spanning [b0, b0 + step - 1].           *)
offsets_moved ==
    \A j \in DOMAIN eligible :
        \E inter \in {efuncs[1].items[1].loops[j]} :
        \E intra \in {efuncs[1].items[1].loops[K + j]} :
            /\ inter.offs = source.items[1].loops[eligible[j]].offs
            /\ intra.offs = <<0, 0>>
            /\ intra.lo = "blk" /\ intra.hi = "blk+step-1" /\ intra.bd = inter.dim

exactly_once(domain) ==
    /\ \A t \in DOMAIN executed : executed[t] = 1 /\ t \in domain
    /\ finished => DOMAIN executed = domain

(* C27: when the blocked loops carry non-zero offsets (a, b), the          *)
(* inter-block loops carry the same offsets, the intra-block loops carry   *)
(* none and span [b0, b0 + step - 1], and the emitted Calls together       *)
(* execute exactly the offset-adjusted iteration domain of the nest, each  *)
(* index tuple once.                                                       *)
C27_Stated ==
    (blocked /\ nonzero_offsets) => (offsets_moved /\ exactly_once(offset_domain))

(* What does hold: the offsets are moved as stated, and the domain is      *)
(* executed exactly once when the two offsets of every blocked loop are    *)
(* equal.                                                                  *)
C27_EqualOffsets ==
    blocked =>
        /\ offsets_moved
        /\ (\A i \in Range(eligible) :
                source.items[1].loops[i].offs[1] = source.items[1].loops[i].offs[2])
              => exactly_once(offset_domain)

(* x over [0, 4] with offsets (0, 1) and tile size 2, all Calls run: the   *)
(* values 4 and 5 of x have been executed twice.                           *)
C27_Witness ==
    /\ finished
    /\ source.items[1].loops[2].offs = <<0, 1>>
    /\ source.items[1].loops[3].offs = <<0, 0>>
    /\ env["x"] = [min |-> 0, max |-> 4, step |-> 2]
    /\ env["y"] = [min |-> 0, max |-> 0, step |-> 1]
    /\ offsets_moved
    /\ <<4, 0>> \in DOMAIN executed /\ executed[<<4, 0>>] = 2
    /\ <<5, 0>> \in DOMAIN executed /\ executed[<<5, 0>>] = 2

(***************************************************************************)
(* Blocking: the loops of the tiled Callable (checked under SpecParallel). *)
(***************************************************************************)
(* The Dimensions of a chain of Iterations, outermost first. *)
dims_of(loops) == [i \in DOMAIN loops |-> loops[i].dim]

(* The nest item is blocked into the Callable bf: below the inter-block    *)
(* loops, one for each eligible loop, bf holds the loops of item from the  *)
(* first eligible one down, each once and in their order.                  *)
all_loops_kept(item, bf, p) ==
    \E k \in {Cardinality(eligible_loops(item, p))} :
        /\ Len(bf.items[1].loops) >= k
        /\ \A j \in 1..k : Len(bf.items[1].loops[j].dim) = 2
        /\ dims_of(SubSeq(bf.items[1].loops, k + 1, Len(bf.items[1].loops)))
              = dims_of(SubSeq(item.loops, first_eligible(item, p), Len(item.loops)))

between(item, p) ==
    {i \in DOMAIN item.loops :
        /\ i \notin eligible_loops(item, p)
        /\ \E j, k \in eligible_loops(item, p) : j < i /\ i < k}

(* C28: the tiled Callable of every blocked nest holds, below its          *)
(* inter-block loops, every loop of the nest from the first eligible one   *)
(* down, exactly once and in the original order: also a loop that is not   *)
(* PARALLEL between two eligible loops and a VECTORIZABLE loop that is not *)
(* tiled.                                                                  *)
C28_Stated ==
    [][(LoopBlocking /\ nodes'.items[1].calls # <<>>)
          => all_loops_kept(nodes.items[1], efuncs'[1], params)]_vars

(* What does hold: all loops are kept when no loop lies between two        *)
(* eligible loops.                                                         *)
C28_NoneBetween ==
    [][(LoopBlocking /\ nodes'.items[1].calls # <<>>
            /\ between(nodes.items[1], params) = {})
          => all_loops_kept(nodes.items[1], efuncs'[1], params)]_vars

(* x and z blocked around the SEQUENTIAL y: the tiled Callable holds the   *)
(* two inter-block loops, x and z, and no loop over y.                     *)
C28_Witness ==
    /\ source.items[1] = ParallelNest({"parallel"}, {"sequential"}, {"parallel"})
    /\ Len(efuncs) = 2
    /\ nodes.items[1].calls # <<>>
    /\ Len(efuncs[1].items[1].loops) = 4
    /\ efuncs[1].items[1].loops[1].dim = <<"x", 0>>
    /\ efuncs[1].items[1].loops[2].dim = <<"z", 0>>
    /\ efuncs[1].items[1].loops[3].dim = <<"x">>
    /\ efuncs[1].items[1].loops[4].dim = <<"z">>

(***************************************************************************)
(* Blocking: termination of the emitted Calls.                             *)
(***************************************************************************)
(* Some loop of a Call run so far never advances over a non-empty range. *)
never_advancing == <<>> \in DOMAIN executed

(* The range and the tile size a Call passes for each blocked axis. *)
tiles_fit_ranges ==
    \A q \in DOMAIN passed : \A j \in DOMAIN passed[q] :
        \E v \in {passed[q][j]} : \E a \in {env[emitted[q].args[j].axis[1]]} :
            /\ v[1] <= v[2] => v[3] >= 1
            /\ v[3] = 0 => v[2] < v[1]
            /\ emitted[q].args[j].sel = 1 => v[3] = a.step
            /\ emitted[q].args[j].sel = 2 =>
                  /\ v[3] = v[2] - (v[1] - 1)
                  /\ v[3] = (a.max - a.min + 1) % a.step

(* C29: every Call emitted by blocking terminates: the tile size passed    *)
(* for a blocked axis is >= 1 whenever the range passed for it is not      *)
(* empty (the step for the interior range, size mod step for the remainder *)
(* range), a tile size of 0 comes only with an empty range, and no         *)
(* inter-block loop advances by 0 over a non-empty range.                  *)
C29_Stated == tiles_fit_ranges /\ ~never_advancing

(* What does hold: the tile sizes fit the ranges passed, and every Call    *)
(* terminates when the two offsets of every blocked loop are equal.        *)
C29_EqualOffsets ==
    /\ tiles_fit_ranges
    /\ (\A i \in DOMAIN source.items[1].loops :
            source.items[1].loops[i].offs[1] = source.items[1].loops[i].offs[2])
          => ~never_advancing

(* x over [0, 3] with offsets (0, 1) and tile size 2: the remainder Call   *)
(* passes the empty range [4, 3] with tile size 0, and the inter-block     *)
(* loop, which runs up to 3 + 1, does not advance from 4.                  *)
C29_Witness ==
    /\ finished
    /\ source.items[1].loops[2].offs = <<0, 1>>
    /\ source.items[1].loops[3].offs = <<0, 0>>
    /\ env["x"] = [min |-> 0, max |-> 3, step |-> 2]
    /\ passed[Len(passed)][1] = <<4, 3, 0>>
    /\ never_advancing

(***************************************************************************)
(* Remainder elimination: how often an Array is padded.                    *)
(***************************************************************************)
(* The nests of the main tree and of the Callables in which padding is     *)
(* applied: one tagged vector loop, and one amount for all Arrays written. *)
padded_nests ==
    {item \in UNION {Range(nodes.items)} \cup UNION {Range(efuncs[e].items) : e \in DOMAIN efuncs} :
        /\ one_tagged_vector_loop(item)
        /\ Cardinality({amount(j) : j \in Range(item.writes)}) = 1}

(* C30: when remainder elimination applies padding for a nest, the padding *)
(* of each distinct Array written in the vector loop grows by the common   *)
(* amount exactly once, also when several Expressions of the loop write    *)
(* the Array, and the padding of the other Arrays does not change.         *)
C30_Stated ==
    [][MinimizeRemainders =>
          \A item \in padded_nests :
              padded_nests = {item} =>
                  \A j \in Tensors :
                      padding'[j] = padding[j]
                          + (IF j \in Range(item.writes) THEN amount(j) ELSE 0)]_vars

(* What does hold: an Array grows by the common amount once for each       *)
(* Expression that writes it.                                              *)
C30_OncePerWrite ==
    [][MinimizeRemainders =>
          \A item \in padded_nests :
              padded_nests = {item} =>
                  \A j \in Tensors :
                      padding'[j] = padding[j]
                          + (IF j \in Range(item.writes)
                             THEN writers(item, j) * amount(j) ELSE 0)]_vars

(* The Array "b", of extent 50, written by two Expressions of the vector   *)
(* loop: padded by 12, and 62 is no multiple of 8.                         *)
C30_Witness ==
    /\ minimized
    /\ efuncs = <<>>
    /\ one_tagged_vector_loop(source.items[1])
    /\ source.items[1].writes = <<"b", "b">>
    /\ padding["b"] = 12
    /\ \A j \in Tensors \ {"b"} : padding[j] = 0

====
